---- MODULE Spec2Model ----
(***************************************************************************)
(* Attachment session of the chat composer: the useFileUpload hook         *)
(* (support gate, duplicate check, the three ingestion entry points,       *)
(* removal, reset, drag state) and the fileToContentBlock materializer.    *)
(* The RunnableConfigPanel component (local copy of the configuration,     *)
(* its two synchronisation effects, the Use Local Model switch and the     *)
(* JSON fields) is modelled in the configuration panel section.            *)
(*                                                                         *)
(* A JavaScript string is modelled as a sequence of one-character strings, *)
(* so that toLowerCase, endsWith, startsWith and template concatenation    *)
(* are computed character by character as the code computes them.         *)
(***************************************************************************)
EXTENDS Integers, Sequences, FiniteSets, TLC

\* ---------------------------------------------------------------- strings

UpperChars ==
  <<"A","B","C","D","E","F","G","H","I","J","K","L","M","N","O","P","Q","R","S","T","U","V","W","X","Y","Z">>

LowerChars ==
  <<"a","b","c","d","e","f","g","h","i","j","k","l","m","n","o","p","q","r","s","t","u","v","w","x","y","z">>

\* the lower-case letter of each upper-case ASCII letter
LowerOf ==
  [c \in {UpperChars[k] : k \in 1..Len(UpperChars)} |->
     LowerChars[CHOOSE k \in 1..Len(UpperChars) : UpperChars[k] = c]]

\* String.prototype.toLowerCase on the ASCII letters the model uses
toLowerCase(s) ==
  [i \in 1..Len(s) |-> IF s[i] \in DOMAIN LowerOf THEN LowerOf[s[i]] ELSE s[i]]

\* String.prototype.startsWith
startsWith(s, prefix) ==
  /\ Len(prefix) <= Len(s)
  /\ SubSeq(s, 1, Len(prefix)) = prefix

\* exts.some(ext => fileName.endsWith(ext)): some entry of the list is a
\* suffix of fileName, that is, some suffix of fileName (the empty one
\* included) is an entry of the list
someEndsWith(fileName, exts) ==
  \E k \in 1..(Len(fileName) + 1) : SubSeq(fileName, k, Len(fileName)) \in exts

\* ------------------------------------------------------------ allow-lists

\* use-file-upload: SUPPORTED_FILE_TYPES (Array.includes is membership)
SUPPORTED_FILE_TYPES ==
  {
      <<"i","m","a","g","e","/","j","p","e","g">>,
      <<"i","m","a","g","e","/","p","n","g">>,
      <<"i","m","a","g","e","/","g","i","f">>,
      <<"i","m","a","g","e","/","w","e","b","p">>,
      <<"a","p","p","l","i","c","a","t","i","o","n","/","p","d","f">>,
      <<"t","e","x","t","/","p","l","a","i","n">>,
      <<"a","p","p","l","i","c","a","t","i","o","n","/","j","s","o","n">>,
      <<"t","e","x","t","/","x","-","p","y","t","h","o","n">>,
      <<"t","e","x","t","/","x","-","c","+","+","s","r","c">>,
      <<"t","e","x","t","/","x","-","c","s","r","c">>,
      <<"t","e","x","t","/","x","-","j","a","v","a","-","s","o","u","r","c","e">>,
      <<"t","e","x","t","/","m","a","r","k","d","o","w","n">>,
      <<"t","e","x","t","/","x","-","j","u","l","i","a">>,
      <<>>,
      <<"a","p","p","l","i","c","a","t","i","o","n","/","o","c","t","e","t","-","s","t","r","e","a","m">>
  }

\* use-file-upload: SUPPORTED_TEXT_EXTENSIONS
SUPPORTED_TEXT_EXTENSIONS ==
  {
      <<".","t","x","t">>, <<".","p","y">>, <<".","j","s">>,
      <<".","t","s">>, <<".","j","s","x">>, <<".","t","s","x">>,
      <<".","j","s","o","n">>, <<".","m","d">>, <<".","m","a","r","k","d","o","w","n">>,
      <<".","h","t","m","l">>, <<".","c","s","s">>, <<".","s","c","s","s">>,
      <<".","s","a","s","s">>, <<".","l","e","s","s">>, <<".","x","m","l">>,
      <<".","y","a","m","l">>, <<".","y","m","l">>, <<".","c">>,
      <<".","c","p","p">>, <<".","c","c">>, <<".","c","x","x">>,
      <<".","h">>, <<".","h","p","p">>, <<".","j","a","v","a">>,
      <<".","g","o">>, <<".","r","s">>, <<".","r","b">>,
      <<".","p","h","p">>, <<".","s","h">>, <<".","b","a","s","h">>,
      <<".","z","s","h">>, <<".","f","i","s","h">>, <<".","s","q","l">>,
      <<".","r">>, <<".","j","l">>, <<".","s","w","i","f","t">>,
      <<".","k","t">>, <<".","s","c","a","l","a">>, <<".","c","l","j">>,
      <<".","h","s">>, <<".","e","l","m">>, <<".","d","a","r","t">>,
      <<".","l","u","a">>, <<".","p","e","r","l">>, <<".","p","l">>,
      <<".","d","o","c","k","e","r","f","i","l","e">>, <<".","g","i","t","i","g","n","o","r","e">>, <<".","e","n","v">>,
      <<".","l","o","g">>, <<".","c","f","g">>, <<".","c","o","n","f">>,
      <<".","i","n","i">>
  }

\* multimodal-utils: the materializer's own copies of the lists
supportedImageTypes ==
  {
      <<"i","m","a","g","e","/","j","p","e","g">>,
      <<"i","m","a","g","e","/","p","n","g">>,
      <<"i","m","a","g","e","/","g","i","f">>,
      <<"i","m","a","g","e","/","w","e","b","p">>
  }

supportedPdfTypes ==
  { <<"a","p","p","l","i","c","a","t","i","o","n","/","p","d","f">> }

supportedTextTypes ==
  {
      <<"t","e","x","t","/","p","l","a","i","n">>,
      <<"a","p","p","l","i","c","a","t","i","o","n","/","j","s","o","n">>,
      <<"t","e","x","t","/","x","-","p","y","t","h","o","n">>,
      <<"t","e","x","t","/","x","-","c","+","+","s","r","c">>,
      <<"t","e","x","t","/","x","-","c","s","r","c">>,
      <<"t","e","x","t","/","x","-","j","a","v","a","-","s","o","u","r","c","e">>,
      <<"t","e","x","t","/","m","a","r","k","d","o","w","n">>,
      <<"t","e","x","t","/","x","-","j","u","l","i","a">>,
      <<>>,
      <<"a","p","p","l","i","c","a","t","i","o","n","/","o","c","t","e","t","-","s","t","r","e","a","m">>
  }

supportedTextExtensions ==
  {
      <<".","t","x","t">>, <<".","p","y">>, <<".","j","s">>,
      <<".","t","s">>, <<".","j","s","x">>, <<".","t","s","x">>,
      <<".","j","s","o","n">>, <<".","m","d">>, <<".","m","a","r","k","d","o","w","n">>,
      <<".","h","t","m","l">>, <<".","c","s","s">>, <<".","s","c","s","s">>,
      <<".","s","a","s","s">>, <<".","l","e","s","s">>, <<".","x","m","l">>,
      <<".","y","a","m","l">>, <<".","y","m","l">>, <<".","c">>,
      <<".","c","p","p">>, <<".","c","c">>, <<".","c","x","x">>,
      <<".","h">>, <<".","h","p","p">>, <<".","j","a","v","a">>,
      <<".","g","o">>, <<".","r","s">>, <<".","r","b">>,
      <<".","p","h","p">>, <<".","s","h">>, <<".","b","a","s","h">>,
      <<".","z","s","h">>, <<".","f","i","s","h">>, <<".","s","q","l">>,
      <<".","r">>, <<".","j","l">>, <<".","s","w","i","f","t">>,
      <<".","k","t">>, <<".","s","c","a","l","a">>, <<".","c","l","j">>,
      <<".","h","s">>, <<".","e","l","m">>, <<".","d","a","r","t">>,
      <<".","l","u","a">>, <<".","p","e","r","l">>, <<".","p","l">>,
      <<".","d","o","c","k","e","r","f","i","l","e">>, <<".","g","i","t","i","g","n","o","r","e">>, <<".","e","n","v">>,
      <<".","l","o","g">>, <<".","c","f","g">>, <<".","c","o","n","f">>,
      <<".","i","n","i">>
  }

supportedFileTypes ==
  supportedImageTypes \cup supportedPdfTypes \cup supportedTextTypes

\* ------------------------------------------------- files and content blocks

\* A browser File: name, declared media type, byte content (all strings).
File(name, type, content) ==
  [name |-> name, type |-> type, content |-> content]

\* mutant of isFileSupported: the empty and the generic binary type count
\* only together with an allow-listed extension
isFileSupported_genericNeedsExt(file) ==
  LET fileName == toLowerCase(file.name)
  IN  IF file.type \in SUPPORTED_FILE_TYPES
           \ {<<>>, <<"a","p","p","l","i","c","a","t","i","o","n","/","o","c","t","e","t","-","s","t","r","e","a","m">>}
      THEN TRUE
      ELSE someEndsWith(fileName, SUPPORTED_TEXT_EXTENSIONS)

\* mutant of isFileSupported: the extension check is left out
isFileSupported_mimeOnly(file) ==
  file.type \in SUPPORTED_FILE_TYPES

\* use-file-upload: isFileSupported, the support gate of the session
isFileSupported(file) ==
  IF file.type \in SUPPORTED_FILE_TYPES
  THEN TRUE
  ELSE LET fileName == toLowerCase(file.name)
       IN  someEndsWith(fileName, SUPPORTED_TEXT_EXTENSIONS)

\* mutant of materializerSupports: the suffix test runs on the name as
\* given, without toLowerCase
materializerSupports_caseSensitive(file) ==
  IF file.type \in supportedFileTypes
  THEN TRUE
  ELSE someEndsWith(file.name, supportedTextExtensions)

\* multimodal-utils: the isFileSupported closure inside fileToContentBlock
materializerSupports(file) ==
  IF file.type \in supportedFileTypes
  THEN TRUE
  ELSE LET fileName == toLowerCase(file.name)
       IN  someEndsWith(fileName, supportedTextExtensions)

\* The base64 text FileReader.readAsDataURL produces for the byte contents
\* the model uses (the browser's encoder, tabulated).
Base64(content) ==
  CASE content = <<"h","i">> -> <<"a","G","k","=">>
    [] content = <<"y","o">> -> <<"e","W","8","=">>
    [] OTHER                 -> <<>>

\* FileReader.readAsDataURL: "data:<type>;base64,<payload>"
readAsDataURL(file) ==
  <<"d","a","t","a",":">> \o file.type
    \o <<";","b","a","s","e","6","4",",">> \o Base64(file.content)

\* result.split(",")[1]: the text between the first comma and the next one
splitComma1(s) ==
  LET commas == {i \in 1..Len(s) : s[i] = ","}
      first  == CHOOSE i \in commas : \A j \in commas : i <= j
      later  == {i \in commas : i > first}
      stop   == IF later = {} THEN Len(s) + 1
                ELSE CHOOSE i \in later : \A j \in later : i <= j
  IN  SubSeq(s, first + 1, stop - 1)

\* multimodal-utils: fileToBase64, when the read succeeds
fileToBase64(file) ==
  splitComma1(readAsDataURL(file))

\* The template literal `File: ${name}\n\n`
FilePrefix(name) ==
  <<"F","i","l","e",":"," ">> \o name \o <<"\n","\n">>

\* mutant of materializerBranch: the text branch is tried before the image
\* and PDF branches
materializerBranch_textFirst(file) ==
  IF file.type \notin supportedFileTypes
       /\ ~someEndsWith(toLowerCase(file.name), supportedTextExtensions)
  THEN "rejected"
  ELSE IF \/ file.type \in supportedTextTypes
          \/ someEndsWith(toLowerCase(file.name), supportedTextExtensions)
       THEN "text"
  ELSE IF file.type \in supportedImageTypes THEN "image"
  ELSE IF file.type \in supportedPdfTypes THEN "file"
  ELSE "fallback"

\* multimodal-utils: the branch fileToContentBlock takes for a file:
\* "rejected" (its own support check), "image", "file", "text", or
\* "fallback" (the final rejection).
materializerBranch(file) ==
  IF ~materializerSupports(file) THEN "rejected"
  ELSE IF file.type \in supportedImageTypes THEN "image"
  ELSE IF file.type \in supportedPdfTypes THEN "file"
  ELSE IF \/ file.type \in supportedTextTypes
          \/ someEndsWith(toLowerCase(file.name), supportedTextExtensions)
       THEN "text"
  ELSE "fallback"

\* multimodal-utils: fileToContentBlock, the block it resolves to when the
\* read of the file succeeds (only defined on the three accepting branches)
fileToContentBlock(file) ==
  CASE materializerBranch(file) = "image" ->
         [type |-> "image", source_type |-> "base64", mime_type |-> file.type,
          data |-> fileToBase64(file), metadata |-> [name |-> file.name]]
    [] materializerBranch(file) = "file" ->
         [type |-> "file", source_type |-> "base64",
          mime_type |-> <<"a","p","p","l","i","c","a","t","i","o","n","/","p","d","f">>,
          data |-> fileToBase64(file), metadata |-> [filename |-> file.name]]
    [] materializerBranch(file) = "text" ->
         [type |-> "text", text |-> FilePrefix(file.name) \o file.content]

\* blocks.some(pred)
some(blocks, pred(_)) ==
  \E i \in 1..Len(blocks) : pred(blocks[i])

\* mutant of isDuplicate: the text rule compares the names without regard to
\* letter case
isDuplicate_caseInsensitive(file, blocks) ==
  LET fileName == toLowerCase(file.name)
  IN  IF someEndsWith(fileName, SUPPORTED_TEXT_EXTENSIONS)
      THEN \E i \in 1..Len(blocks) :
             /\ blocks[i].type = "text"
             /\ startsWith(toLowerCase(blocks[i].text),
                           toLowerCase(FilePrefix(file.name)))
      ELSE IF file.type = <<"a","p","p","l","i","c","a","t","i","o","n","/","p","d","f">>
      THEN \E i \in 1..Len(blocks) :
             /\ blocks[i].type = "file"
             /\ blocks[i].metadata.filename = file.name
      ELSE IF startsWith(file.type, <<"i","m","a","g","e","/">>)
      THEN \E i \in 1..Len(blocks) :
             /\ blocks[i].type = "image"
             /\ blocks[i].metadata.name = file.name
             /\ blocks[i].mime_type = file.type
      ELSE FALSE

\* mutant of isDuplicate: the image rule compares the name alone
isDuplicate_imageByName(file, blocks) ==
  LET fileName == toLowerCase(file.name)
  IN  IF someEndsWith(fileName, SUPPORTED_TEXT_EXTENSIONS)
      THEN \E i \in 1..Len(blocks) :
             /\ blocks[i].type = "text"
             /\ startsWith(blocks[i].text, FilePrefix(file.name))
      ELSE IF file.type = <<"a","p","p","l","i","c","a","t","i","o","n","/","p","d","f">>
      THEN \E i \in 1..Len(blocks) :
             /\ blocks[i].type = "file"
             /\ blocks[i].metadata.filename = file.name
      ELSE IF startsWith(file.type, <<"i","m","a","g","e","/">>)
      THEN \E i \in 1..Len(blocks) :
             /\ blocks[i].type = "image"
             /\ blocks[i].metadata.name = file.name
      ELSE FALSE

\* mutant of isDuplicate: the PDF rule accepts a block of any variant that
\* carries the name
isDuplicate_pdfByAnyBlock(file, blocks) ==
  LET fileName == toLowerCase(file.name)
  IN  IF someEndsWith(fileName, SUPPORTED_TEXT_EXTENSIONS)
      THEN \E i \in 1..Len(blocks) :
             /\ blocks[i].type = "text"
             /\ startsWith(blocks[i].text, FilePrefix(file.name))
      ELSE IF file.type = <<"a","p","p","l","i","c","a","t","i","o","n","/","p","d","f">>
      THEN \E i \in 1..Len(blocks) :
             \/ /\ blocks[i].type = "file"
                /\ blocks[i].metadata.filename = file.name
             \/ /\ blocks[i].type = "image"
                /\ blocks[i].metadata.name = file.name
             \/ /\ blocks[i].type = "text"
                /\ startsWith(blocks[i].text, FilePrefix(file.name))
      ELSE IF startsWith(file.type, <<"i","m","a","g","e","/">>)
      THEN \E i \in 1..Len(blocks) :
             /\ blocks[i].type = "image"
             /\ blocks[i].metadata.name = file.name
             /\ blocks[i].mime_type = file.type
      ELSE FALSE

\* mutant of isDuplicate: the text rule compares the whole text of the
\* block with the text the file would give, content included
isDuplicate_byContent(file, blocks) ==
  LET fileName == toLowerCase(file.name)
  IN  IF someEndsWith(fileName, SUPPORTED_TEXT_EXTENSIONS)
      THEN \E i \in 1..Len(blocks) :
             /\ blocks[i].type = "text"
             /\ blocks[i].text = FilePrefix(file.name) \o file.content
      ELSE IF file.type = <<"a","p","p","l","i","c","a","t","i","o","n","/","p","d","f">>
      THEN \E i \in 1..Len(blocks) :
             /\ blocks[i].type = "file"
             /\ blocks[i].metadata.filename = file.name
      ELSE IF startsWith(file.type, <<"i","m","a","g","e","/">>)
      THEN \E i \in 1..Len(blocks) :
             /\ blocks[i].type = "image"
             /\ blocks[i].metadata.name = file.name
             /\ blocks[i].mime_type = file.type
      ELSE FALSE

\* use-file-upload: isDuplicate of the hook (selection and drop)
isDuplicate(file, blocks) ==
  LET fileName == toLowerCase(file.name)
      textRule(b) == /\ b.type = "text"
                     /\ startsWith(b.text, FilePrefix(file.name))
      pdfRule(b)  == /\ "mime_type" \in DOMAIN b
                     /\ b.type = "file"
                     /\ b.mime_type = <<"a","p","p","l","i","c","a","t","i","o","n","/","p","d","f">>
                     /\ "metadata" \in DOMAIN b
                     /\ "filename" \in DOMAIN b.metadata
                     /\ b.metadata.filename = file.name
      imgRule(b)  == /\ "mime_type" \in DOMAIN b
                     /\ b.type = "image"
                     /\ "metadata" \in DOMAIN b
                     /\ "name" \in DOMAIN b.metadata
                     /\ b.metadata.name = file.name
                     /\ b.mime_type = file.type
  IN  IF someEndsWith(fileName, SUPPORTED_TEXT_EXTENSIONS)
      THEN some(blocks, textRule)
      ELSE IF file.type = <<"a","p","p","l","i","c","a","t","i","o","n","/","p","d","f">>
      THEN some(blocks, pdfRule)
      ELSE IF startsWith(file.type, <<"i","m","a","g","e","/">>)
      THEN some(blocks, imgRule)
      ELSE FALSE

\* mutant of pasteIsDuplicate: the copy in handlePaste without the PDF rule
pasteIsDuplicate_noPdfRule(file, blocks) ==
  LET fileName == toLowerCase(file.name)
  IN  IF someEndsWith(fileName, SUPPORTED_TEXT_EXTENSIONS)
      THEN \E i \in 1..Len(blocks) :
             /\ blocks[i].type = "text"
             /\ startsWith(blocks[i].text, FilePrefix(file.name))
      ELSE IF startsWith(file.type, <<"i","m","a","g","e","/">>)
      THEN \E i \in 1..Len(blocks) :
             /\ blocks[i].type = "image"
             /\ blocks[i].metadata.name = file.name
             /\ blocks[i].mime_type = file.type
      ELSE FALSE

\* use-file-upload: the isDuplicate closure of handlePaste, a textual copy
\* of the hook's isDuplicate applied to the captured contentBlocks
pasteIsDuplicate(file, blocks) ==
  LET fileName == toLowerCase(file.name)
      textRule(b) == /\ b.type = "text"
                     /\ startsWith(b.text, FilePrefix(file.name))
      pdfRule(b)  == /\ "mime_type" \in DOMAIN b
                     /\ b.type = "file"
                     /\ b.mime_type = <<"a","p","p","l","i","c","a","t","i","o","n","/","p","d","f">>
                     /\ "metadata" \in DOMAIN b
                     /\ "filename" \in DOMAIN b.metadata
                     /\ b.metadata.filename = file.name
      imgRule(b)  == /\ "mime_type" \in DOMAIN b
                     /\ b.type = "image"
                     /\ "metadata" \in DOMAIN b
                     /\ "name" \in DOMAIN b.metadata
                     /\ b.metadata.name = file.name
                     /\ b.mime_type = file.type
  IN  IF someEndsWith(fileName, SUPPORTED_TEXT_EXTENSIONS)
      THEN some(blocks, textRule)
      ELSE IF file.type = <<"a","p","p","l","i","c","a","t","i","o","n","/","p","d","f">>
      THEN some(blocks, pdfRule)
      ELSE IF startsWith(file.type, <<"i","m","a","g","e","/">>)
      THEN some(blocks, imgRule)
      ELSE FALSE

\* Array.prototype.filter
filter(s, keep(_)) ==
  SelectSeq(s, keep)

\* ------------------------------------------------------------------ bounds

\* most files one ingestion call is given
MaxBatch == 2

\* most blocks the collection and the reads in flight hold together
MaxBlocks == 3

\* most ingestion calls suspended in materialization at one time
MaxTasks == 2

\* ------------------------------------------------------- the files at hand

T_plain == <<"t","e","x","t","/","p","l","a","i","n">>
T_png   == <<"i","m","a","g","e","/","p","n","g">>
T_jpeg  == <<"i","m","a","g","e","/","j","p","e","g">>
T_bmp   == <<"i","m","a","g","e","/","b","m","p">>
T_pdf   == <<"a","p","p","l","i","c","a","t","i","o","n","/","p","d","f">>
T_zip   == <<"a","p","p","l","i","c","a","t","i","o","n","/","z","i","p">>
T_octet == <<"a","p","p","l","i","c","a","t","i","o","n","/","o","c","t","e","t","-","s","t","r","e","a","m">>
T_empty == <<>>
T_gif   == <<"i","m","a","g","e","/","g","i","f">>
T_webp  == <<"i","m","a","g","e","/","w","e","b","p">>
T_html  == <<"t","e","x","t","/","h","t","m","l">>
T_garbage == <<"a","p","p","l","i","c","a","t","i","o","n","/","x","-","g","a","r","b","a","g","e">>
T_upperPng == <<"I","M","A","G","E","/","P","N","G">>

C_hi == <<"h","i">>
C_yo == <<"y","o">>

aTxt      == File(<<"a",".","t","x","t">>, T_plain, C_hi)
aTxtYo    == File(<<"a",".","t","x","t">>, T_plain, C_yo)
upperATxt == File(<<"A",".","t","x","t">>, T_plain, C_hi)
aTxtPng   == File(<<"a",".","t","x","t">>, T_png, C_hi)
aPng      == File(<<"a",".","p","n","g">>, T_png, C_hi)
aPngJpeg  == File(<<"a",".","p","n","g">>, T_jpeg, C_hi)
aPngPdf   == File(<<"a",".","p","n","g">>, T_pdf, C_yo)
aZip      == File(<<"a",".","z","i","p">>, T_zip, C_hi)
notes     == File(<<"n","o","t","e","s">>, T_plain, C_hi)
bPng      == File(<<"b",".","p","n","g">>, T_png, C_hi)
aPdf      == File(<<"a",".","p","d","f">>, T_pdf, C_hi)
aTxtPdf   == File(<<"a",".","t","x","t">>, T_pdf, C_hi)
notesPng  == File(<<"n","o","t","e","s">>, T_png, C_hi)
notesPdf  == File(<<"n","o","t","e","s">>, T_pdf, C_yo)

\* The files the user has at hand during one session: every session of the
\* model works with one of these small sets.
Universes ==
  { {aTxt, aTxtYo},
    {aTxt, upperATxt},
    {aTxt, aTxtPng},
    {aPng, aPngJpeg},
    {aPng, aPngPdf},
    {aPng, aZip},
    {notes, aZip} }

\* ------------------------------------------------------------------- state

VARIABLES
  universe,       \* the files the user can select, drop or paste
  contentBlocks,  \* useState: the ordered collection of content blocks
  dragOver,       \* useState: the hover boolean
  dragCounter,    \* useRef: the drag reentrancy counter
  dragLog,        \* the window dragenter/dragleave events that carried files
                  \* since the counter was last set to 0 by another handler
  inflight,       \* ingestion calls suspended at await Promise.all
  pickerValue,    \* e.target.value of the file input of the selection handler
  ev,             \* the handler that ran last, its input and what it emitted
  config,         \* configuration panel: the config prop (the object the
                  \* parent holds)
  localConfig,    \* configuration panel: useState, the local copy
  effectDeps,     \* configuration panel: the objects the two synchronisation
                  \* effects saw as dependencies when they last ran
  nextRef,        \* configuration panel: the identity of the next object
  panelEv         \* configuration panel: the event handled last, its input,
                  \* and the effect flushes and callback calls it caused

uploadVars ==
  <<universe, contentBlocks, dragOver, dragCounter, dragLog, inflight,
    pickerValue, ev>>

panelVars ==
  <<config, localConfig, effectDeps, nextRef, panelEv>>

vars ==
  <<universe, contentBlocks, dragOver, dragCounter, dragLog, inflight,
    pickerValue, ev, config, localConfig, effectDeps, nextRef, panelEv>>

\* the configuration panel is not rendered
PanelUnmounted ==
  /\ config = [ref |-> 0, val |-> <<>>]
  /\ localConfig = [ref |-> 0, val |-> <<>>]
  /\ effectDeps = [config |-> 0, localConfig |-> 0]
  /\ nextRef = 0
  /\ panelEv = [op |-> "unmounted"]

\* file lists of at most MaxBatch files drawn from the files at hand
Batches ==
  UNION { [1..n -> universe] : n \in 0..MaxBatch }

\* blocks that the calls in flight would still append
Pending ==
  LET P[i \in 0..Len(inflight)] ==
        IF i = 0 THEN 0 ELSE P[i - 1] + Len(inflight[i].files)
  IN  P[Len(inflight)]

\* toast.error messages
ToastInvalidUpload == [msg |-> "invalid-upload", names |-> <<>>]

ToastInvalidPaste == [msg |-> "invalid-paste", names |-> <<>>]

ToastDuplicate(dups) ==
  [msg |-> "duplicate", names |-> [i \in 1..Len(dups) |-> dups[i].name]]

\* what a handler run is recorded as: the handler, the files it was given,
\* the toasts it emitted in order, whether it called e.preventDefault(),
\* and (for a call that resumed) the order in which its reads completed
Event(op, files, toasts, prevented, order) ==
  [op |-> op, files |-> files, toasts |-> toasts,
   defaultPrevented |-> prevented, order |-> order]

\* what a run of an ingestion handler is recorded as, up to its await: as
\* Event, and the uniqueFiles it hands to Promise.all
IngestEvent(op, files, toasts, prevented, read) ==
  [op |-> op, files |-> files, toasts |-> toasts,
   defaultPrevented |-> prevented, order |-> <<>>, read |-> read]

Init ==
  /\ universe \in Universes
  /\ contentBlocks = <<>>
  /\ dragOver = FALSE
  /\ dragCounter = 0
  /\ dragLog = <<>>
  /\ inflight = <<>>
  /\ pickerValue = ""
  /\ ev = Event("init", <<>>, <<>>, FALSE, <<>>)
  /\ PanelUnmounted

\* ----------------------------------------------------------------- actions

\* mutant of validFilesOf: the gate lets every file through
validFilesOf_noGate(fileArray) ==
  fileArray

\* fileArray.filter((file) => isFileSupported(file))
validFilesOf(fileArray) ==
  LET supported(f) == isFileSupported(f)
  IN  filter(fileArray, supported)

\* fileArray.filter((file) => !isFileSupported(file))
invalidFilesOf(fileArray) ==
  LET unsupported(f) == ~isFileSupported(f)
  IN  filter(fileArray, unsupported)

\* validFiles.filter((file) => isDuplicate(file, contentBlocks))
duplicateFilesOf(validFiles, blocks) ==
  LET dup(f) == isDuplicate(f, blocks)
  IN  filter(validFiles, dup)

\* mutant of uniqueFilesOf: a file equal in name and type to an earlier file
\* of the same batch is dropped as well
uniqueFilesOf_batchDedup(validFiles, blocks) ==
  LET notDup(f) == ~isDuplicate(f, blocks)
      kept      == filter(validFiles, notDup)
      first(k)  == \A m \in 1..(k - 1) :
                     kept[m].name # kept[k].name \/ kept[m].type # kept[k].type
      firsts    == {k \in 1..Len(kept) : first(k)}
      nth(n)    == CHOOSE k \in firsts : Cardinality({m \in firsts : m < k}) = n - 1
  IN  [n \in 1..Cardinality(firsts) |-> kept[nth(n)]]

\* validFiles.filter((file) => !isDuplicate(file, contentBlocks))
uniqueFilesOf(validFiles, blocks) ==
  LET notDup(f) == ~isDuplicate(f, blocks)
  IN  filter(validFiles, notDup)

\* handlePaste: validFiles.filter(isDuplicate)
pasteDuplicateFilesOf(validFiles, blocks) ==
  LET dup(f) == pasteIsDuplicate(f, blocks)
  IN  filter(validFiles, dup)

\* handlePaste: validFiles.filter((file) => !isDuplicate(file))
pasteUniqueFilesOf(validFiles, blocks) ==
  LET notDup(f) == ~pasteIsDuplicate(f, blocks)
  IN  filter(validFiles, notDup)

\* mutant of toastsOf: one toast for each unsupported file and one for each
\* duplicate file
toastsOf_perFile(invalidToast, invalidFiles, duplicateFiles) ==
  [k \in 1..Len(invalidFiles) |-> invalidToast]
    \o [k \in 1..Len(duplicateFiles) |->
          [msg |-> "duplicate", names |-> <<duplicateFiles[k].name>>]]

\* the two toast.error calls of one ingestion call, in the order of the code
toastsOf(invalidToast, invalidFiles, duplicateFiles) ==
  (IF Len(invalidFiles) > 0 THEN <<invalidToast>> ELSE <<>>)
    \o (IF Len(duplicateFiles) > 0
        THEN <<ToastDuplicate(duplicateFiles)>> ELSE <<>>)

\* a slot of the Promise.all result array that is not filled yet
Unsettled == [type |-> "unsettled"]

\* A call suspended at await Promise.all(uniqueFiles.map(fileToContentBlock)):
\* the files being read, the result array Promise.all fills by index, and
\* the indices in the order their reads completed
Task(files) ==
  [files |-> files, values |-> [i \in 1..Len(files) |-> Unsettled],
   order |-> <<>>, target |-> "none"]

\* A call of handleFileUpload suspended at the await: after it, the handler
\* still has e.target.value = "" to run
SelectionTask(files) ==
  [Task(files) EXCEPT !.target = "picker"]

\* setContentBlocks((prev) => [...prev, ...newBlocks])
appendBlocks(prev, newBlocks) ==
  prev \o newBlocks

\* use-file-upload: handleFileUpload, up to the await
handleFileUpload(fileArray) ==
  LET validFiles     == validFilesOf(fileArray)
      invalidFiles   == invalidFilesOf(fileArray)
      duplicateFiles == duplicateFilesOf(validFiles, contentBlocks)
      uniqueFiles    == uniqueFilesOf(validFiles, contentBlocks)
      toasts         == toastsOf(ToastInvalidUpload, invalidFiles, duplicateFiles)
  IN  /\ Len(contentBlocks) + Pending + Len(uniqueFiles) <= MaxBlocks
      /\ IF Len(uniqueFiles) > 0
         THEN /\ Len(inflight) < MaxTasks
              /\ inflight' = Append(inflight, SelectionTask(uniqueFiles))
              \* the input holds the selection the browser stored in it
              /\ pickerValue' = "chosen"
              /\ UNCHANGED <<contentBlocks, dragCounter, dragLog>>
         ELSE \* newBlocks = []: setContentBlocks still stores a new array,
              \* so the effect on [contentBlocks] is torn down and set up again
              /\ contentBlocks' = appendBlocks(contentBlocks, <<>>)
              /\ dragCounter' = 0
              /\ dragLog' = <<>>
              \* e.target.value = ""
              /\ pickerValue' = ""
              /\ UNCHANGED inflight
      /\ ev' = IngestEvent("select", fileArray, toasts, FALSE, uniqueFiles)
      /\ UNCHANGED <<universe, panelVars, dragOver>>

\* use-file-upload: handleWindowDrop, up to the await
handleWindowDrop(files) ==
  LET validFiles     == validFilesOf(files)
      invalidFiles   == invalidFilesOf(files)
      duplicateFiles == duplicateFilesOf(validFiles, contentBlocks)
      uniqueFiles    == uniqueFilesOf(validFiles, contentBlocks)
      toasts         == toastsOf(ToastInvalidUpload, invalidFiles, duplicateFiles)
  IN  /\ Len(contentBlocks) + Pending + Len(uniqueFiles) <= MaxBlocks
      /\ dragOver' = FALSE
      /\ dragCounter' = 0
      /\ dragLog' = <<>>
      /\ IF Len(uniqueFiles) > 0
         THEN /\ Len(inflight) < MaxTasks
              /\ inflight' = Append(inflight, Task(uniqueFiles))
              /\ UNCHANGED contentBlocks
         ELSE /\ contentBlocks' = appendBlocks(contentBlocks, <<>>)
              /\ UNCHANGED inflight
      /\ ev' = IngestEvent("drop", files, toasts, TRUE, uniqueFiles)
      /\ UNCHANGED <<universe, panelVars, pickerValue>>

\* a clipboard item: a string item, or a file item
StringItem == [kind |-> "string"]

FileItem(f) == [kind |-> "file", file |-> f]

\* handlePaste: the files of the items whose kind is "file"
pastedFiles(items) ==
  LET isFile(it) == it.kind = "file"
      fileItems  == filter(items, isFile)
  IN  [i \in 1..Len(fileItems) |-> fileItems[i].file]

\* mutant of handlePaste: e.preventDefault() is called before the file items
\* are counted
handlePaste_preventFirst(items) ==
  LET files          == pastedFiles(items)
      validFiles     == validFilesOf(files)
      invalidFiles   == invalidFilesOf(files)
      duplicateFiles == pasteDuplicateFilesOf(validFiles, contentBlocks)
      uniqueFiles    == pasteUniqueFilesOf(validFiles, contentBlocks)
      toasts         == toastsOf(ToastInvalidPaste, invalidFiles, duplicateFiles)
  IN  IF Len(files) = 0
      THEN /\ ev' = IngestEvent("paste", files, <<>>, TRUE, <<>>)
           /\ UNCHANGED <<universe, panelVars, pickerValue, contentBlocks, dragOver, dragCounter, dragLog, inflight>>
      ELSE /\ Len(contentBlocks) + Pending + Len(uniqueFiles) <= MaxBlocks
           /\ IF Len(uniqueFiles) > 0
              THEN /\ Len(inflight) < MaxTasks
                   /\ inflight' = Append(inflight, Task(uniqueFiles))
              ELSE UNCHANGED inflight
           /\ ev' = IngestEvent("paste", files, toasts, TRUE, uniqueFiles)
           /\ UNCHANGED <<universe, panelVars, pickerValue, contentBlocks, dragOver, dragCounter, dragLog>>

\* use-file-upload: handlePaste, up to the await
handlePaste(items) ==
  LET files          == pastedFiles(items)
      validFiles     == validFilesOf(files)
      invalidFiles   == invalidFilesOf(files)
      duplicateFiles == pasteDuplicateFilesOf(validFiles, contentBlocks)
      uniqueFiles    == pasteUniqueFilesOf(validFiles, contentBlocks)
      toasts         == toastsOf(ToastInvalidPaste, invalidFiles, duplicateFiles)
  IN  IF Len(files) = 0
      THEN /\ ev' = IngestEvent("paste", files, <<>>, FALSE, <<>>)
           /\ UNCHANGED <<universe, panelVars, pickerValue, contentBlocks, dragOver, dragCounter, dragLog, inflight>>
      ELSE /\ Len(contentBlocks) + Pending + Len(uniqueFiles) <= MaxBlocks
           /\ IF Len(uniqueFiles) > 0
              THEN /\ Len(inflight) < MaxTasks
                   /\ inflight' = Append(inflight, Task(uniqueFiles))
              ELSE UNCHANGED inflight
           /\ ev' = IngestEvent("paste", files, toasts, TRUE, uniqueFiles)
           /\ UNCHANGED <<universe, panelVars, pickerValue, contentBlocks, dragOver, dragCounter, dragLog>>

\* the sequence s without its k-th element
without(s, k) ==
  SubSeq(s, 1, k - 1) \o SubSeq(s, k + 1, Len(s))

\* mutant of promiseAllFulfil: the value is pushed in the order of resolution
promiseAllFulfil_push(values, i, b) ==
  LET free == {k \in 1..Len(values) : values[k] = [type |-> "unsettled"]}
  IN  [values EXCEPT ![CHOOSE k \in free : \A m \in free : k <= m] = b]

\* Promise.all: the i-th promise resolved with block b; the value is stored
\* at index i of the result array, whatever the order of resolution
promiseAllFulfil(values, i, b) ==
  [values EXCEPT ![i] = b]

\* mutant of resumeWith: the resumed call stores its own blocks in place of
\* the collection, setContentBlocks(newBlocks)
resumeWith_overwrite(prev, values) ==
  values

\* the collection after a suspended call resumes with the Promise.all result
resumeWith(prev, values) ==
  appendBlocks(prev, values)

\* One read of a suspended call succeeds (fileToContentBlock took one of its
\* accepting branches).  When it is the last one, Promise.all resolves with
\* the result array and the call resumes.
readResolves(t, i) ==
  LET task   == inflight[t]
      values == promiseAllFulfil(task.values, i, fileToContentBlock(task.files[i]))
      order  == Append(task.order, i)
  IN  /\ \A k \in 1..Len(task.order) : task.order[k] # i
      /\ materializerBranch(task.files[i]) \in {"image", "file", "text"}
      /\ IF \A j \in 1..Len(values) : values[j] # Unsettled
         THEN /\ contentBlocks' = resumeWith(contentBlocks, values)
              /\ dragCounter' = 0
              /\ dragLog' = <<>>
              /\ inflight' = without(inflight, t)
              \* handleFileUpload goes on to e.target.value = ""
              /\ pickerValue' = (IF task.target = "picker" THEN ""
                                 ELSE pickerValue)
              /\ ev' = Event("appended", task.files, <<>>, FALSE, order)
         ELSE /\ inflight' = [inflight EXCEPT ![t].values = values,
                                              ![t].order = order]
              /\ ev' = Event("read", <<>>, <<>>, FALSE, <<>>)
              /\ UNCHANGED <<contentBlocks, dragCounter, dragLog, pickerValue>>
      /\ UNCHANGED <<universe, panelVars, dragOver>>

\* mutant of abandon: the blocks already read are appended (allSettled)
abandon_keepSettled(prev, values) ==
  LET settled(v) == v # [type |-> "unsettled"]
  IN  prev \o SelectSeq(values, settled)

\* the collection after a suspended call is rejected: the await throws and
\* setContentBlocks is never reached
abandon(prev, values) ==
  prev

\* mutant of readRejects: the rejection is swallowed, the call stays
\* suspended with this read marked as done
readRejects_swallowed(t, i) ==
  LET task == inflight[t]
  IN  /\ \A k \in 1..Len(task.order) : task.order[k] # i
      /\ inflight' = [inflight EXCEPT ![t].order = Append(task.order, i)]
      /\ ev' = Event("read", <<>>, <<>>, FALSE, <<>>)
      /\ UNCHANGED <<universe, panelVars, pickerValue, contentBlocks, dragOver, dragCounter, dragLog>>

\* One read of a suspended call fails (or fileToContentBlock rejects the
\* file): Promise.all rejects, the await throws and the rest of the handler
\* never runs.  The reads still pending go on, to no effect.
readRejects(t, i) ==
  LET task == inflight[t]
  IN  /\ \A k \in 1..Len(task.order) : task.order[k] # i
      /\ contentBlocks' = abandon(contentBlocks, task.values)
      /\ inflight' = without(inflight, t)
      /\ ev' = Event("failed", task.files, <<>>, FALSE, task.order)
      /\ UNCHANGED <<universe, panelVars, pickerValue, dragOver, dragCounter, dragLog>>

\* mutant of filterIndex: the index is taken as 1-based
filterIndex_oneBased(prev, idx) ==
  LET kept == {i \in 1..Len(prev) : i # idx}
      nth(k) == CHOOSE i \in kept : Cardinality({j \in kept : j < i}) = k - 1
  IN  [k \in 1..Cardinality(kept) |-> prev[nth(k)]]

\* prev.filter((_, i) => i !== idx), with the 0-based index of the code
filterIndex(prev, idx) ==
  LET kept == {i \in 1..Len(prev) : i - 1 # idx}
      nth(k) == CHOOSE i \in kept : Cardinality({j \in kept : j < i}) = k - 1
  IN  [k \in 1..Cardinality(kept) |-> prev[nth(k)]]

\* use-file-upload: removeBlock
removeBlock(idx) ==
  /\ contentBlocks' = filterIndex(contentBlocks, idx)
  /\ dragCounter' = 0
  /\ dragLog' = <<>>
  /\ ev' = Event("remove", <<>>, <<>>, FALSE, <<>>)
  /\ UNCHANGED <<universe, panelVars, pickerValue, dragOver, inflight>>

\* use-file-upload: resetBlocks
resetBlocks ==
  /\ contentBlocks' = <<>>
  /\ dragCounter' = 0
  /\ dragLog' = <<>>
  /\ ev' = Event("reset", <<>>, <<>>, FALSE, <<>>)
  /\ UNCHANGED <<universe, panelVars, pickerValue, dragOver, inflight>>

\* ------------------------------------------------------------ drag events

\* the longest run of window dragenter/dragleave events that carry files
\* between two resets of the counter
MaxLog == 5

\* use-file-upload: handleWindowDragEnter; hasFiles is
\* e.dataTransfer?.types?.includes("Files")
handleWindowDragEnter(hasFiles) ==
  /\ IF hasFiles
     THEN /\ Len(dragLog) < MaxLog
          /\ dragCounter' = dragCounter + 1
          /\ dragOver' = TRUE
          /\ dragLog' = Append(dragLog, "enter")
     ELSE UNCHANGED <<dragCounter, dragOver, dragLog>>
  /\ ev' = Event("dragenter", <<>>, <<>>, FALSE, <<>>)
  /\ UNCHANGED <<universe, panelVars, pickerValue, contentBlocks, inflight>>

\* mutant of handleWindowDragLeave: the counter is decremented and the hover
\* cleared at 0, without the reset of a counter that went below 0
handleWindowDragLeave_noClamp(hasFiles) ==
  /\ IF hasFiles
     THEN /\ Len(dragLog) < MaxLog
          /\ dragCounter' = dragCounter - 1
          /\ dragOver' = (IF dragCounter - 1 = 0 THEN FALSE ELSE dragOver)
          /\ dragLog' = Append(dragLog, "leave")
     ELSE UNCHANGED <<dragCounter, dragOver, dragLog>>
  /\ ev' = Event("dragleave", <<>>, <<>>, FALSE, <<>>)
  /\ UNCHANGED <<universe, panelVars, pickerValue, contentBlocks, inflight>>

\* use-file-upload: handleWindowDragLeave
handleWindowDragLeave(hasFiles) ==
  /\ IF hasFiles
     THEN /\ Len(dragLog) < MaxLog
          /\ IF dragCounter - 1 <= 0
             THEN /\ dragOver' = FALSE
                  /\ dragCounter' = 0
             ELSE /\ dragCounter' = dragCounter - 1
                  /\ UNCHANGED dragOver
          /\ dragLog' = Append(dragLog, "leave")
     ELSE UNCHANGED <<dragCounter, dragOver, dragLog>>
  /\ ev' = Event("dragleave", <<>>, <<>>, FALSE, <<>>)
  /\ UNCHANGED <<universe, panelVars, pickerValue, contentBlocks, inflight>>

\* use-file-upload: handleWindowDrop when e.dataTransfer is null: the early
\* return after the counter and the hover are cleared
handleWindowDropNoTransfer ==
  /\ dragCounter' = 0
  /\ dragLog' = <<>>
  /\ dragOver' = FALSE
  /\ ev' = IngestEvent("drop", <<>>, <<>>, TRUE, <<>>)
  /\ UNCHANGED <<universe, panelVars, pickerValue, contentBlocks, inflight>>

\* mutant of handleWindowDragEnd: the counter is reset and the hover is left
\* as it is
handleWindowDragEnd_counterOnly ==
  /\ dragCounter' = 0
  /\ dragLog' = <<>>
  /\ ev' = Event("dragend", <<>>, <<>>, FALSE, <<>>)
  /\ UNCHANGED <<universe, panelVars, pickerValue, contentBlocks, dragOver, inflight>>

\* use-file-upload: handleWindowDragEnd
handleWindowDragEnd ==
  /\ dragCounter' = 0
  /\ dragLog' = <<>>
  /\ dragOver' = FALSE
  /\ ev' = Event("dragend", <<>>, <<>>, FALSE, <<>>)
  /\ UNCHANGED <<universe, panelVars, pickerValue, contentBlocks, inflight>>

\* use-file-upload: handleWindowDragOver
handleWindowDragOver ==
  /\ ev' = Event("dragover", <<>>, <<>>, TRUE, <<>>)
  /\ UNCHANGED <<universe, panelVars, pickerValue, contentBlocks, dragOver, dragCounter, dragLog, inflight>>

\* use-file-upload: handleDragOver of the drop target element; it stops the
\* propagation, so the window listener does not run for this event
handleDragOver ==
  /\ dragOver' = TRUE
  /\ ev' = Event("element-dragover", <<>>, <<>>, TRUE, <<>>)
  /\ UNCHANGED <<universe, panelVars, pickerValue, contentBlocks, dragCounter, dragLog, inflight>>

\* use-file-upload: handleDragEnter of the drop target element
handleDragEnter ==
  /\ dragOver' = TRUE
  /\ ev' = Event("element-dragenter", <<>>, <<>>, TRUE, <<>>)
  /\ UNCHANGED <<universe, panelVars, pickerValue, contentBlocks, dragCounter, dragLog, inflight>>

\* use-file-upload: handleDragLeave of the drop target element
handleDragLeave ==
  /\ dragOver' = FALSE
  /\ ev' = Event("element-dragleave", <<>>, <<>>, TRUE, <<>>)
  /\ UNCHANGED <<universe, panelVars, pickerValue, contentBlocks, dragCounter, dragLog, inflight>>

\* ------------------------------------------------------------ specification

\* the user starts a call when no earlier call is suspended in
\* materialization; OverlapSelect, OverlapDrop and OverlapPaste below start
\* one while another is suspended
Select == inflight = <<>> /\ \E files \in Batches : handleFileUpload(files)

Drop == inflight = <<>> /\ \E files \in Batches : handleWindowDrop(files)

\* the clipboard holds one string item (the text representation) and then
\* one file item for each file
Paste ==
  /\ inflight = <<>>
  /\ \E files \in Batches :
       handlePaste(<<StringItem>> \o [i \in 1..Len(files) |-> FileItem(files[i])])

ReadResolves ==
  \E t \in 1..Len(inflight) : \E i \in 1..Len(inflight[t].files) :
    readResolves(t, i)

ReadRejects ==
  \E t \in 1..Len(inflight) : \E i \in 1..Len(inflight[t].files) :
    readRejects(t, i)

Remove == \E idx \in 0..MaxBlocks : removeBlock(idx)

Reset == resetBlocks

Next ==
  \/ Select
  \/ Drop
  \/ Paste
  \/ ReadResolves
  \/ ReadRejects
  \/ Remove
  \/ Reset

Spec == Init /\ [][Next]_vars

\* ------------------------------------------- sessions with one file at hand

\* how often the one file is ingested
MaxProbes == 2

UpperOf ==
  [c \in {LowerChars[k] : k \in 1..Len(LowerChars)} |->
     UpperChars[CHOOSE k \in 1..Len(LowerChars) : LowerChars[k] = c]]

toUpperCase(s) ==
  [i \in 1..Len(s) |-> IF s[i] \in DOMAIN UpperOf THEN UpperOf[s[i]] ELSE s[i]]

\* file names: one for every allow-listed extension, in lower and in upper
\* case, and names without an allow-listed extension
ProbeNames ==
  {<<"a">> \o ext : ext \in SUPPORTED_TEXT_EXTENSIONS}
    \cup {toUpperCase(<<"a">> \o ext) : ext \in SUPPORTED_TEXT_EXTENSIONS}
    \cup { <<"n","o","t","e","s">>, <<"t","x","t">>, <<".","e","n","v">>,
           <<"a",".","z","i","p">>, <<"a",".","p","n","g">>,
           <<"b",".","p","d","f">>, <<"a",".","t","x","t",".","z","i","p">>,
           <<"d","a","t","a",".","b","i","n">> }

\* declared media types: every allow-listed one, and some that are not
ProbeTypes ==
  SUPPORTED_FILE_TYPES \cup {T_zip, T_bmp, T_html, T_garbage, T_upperPng}

ProbeFiles ==
  {File(n, t, C_hi) : n \in ProbeNames, t \in ProbeTypes}

ProbeInit ==
  /\ universe \in {{f} : f \in ProbeFiles}
  /\ contentBlocks = <<>>
  /\ dragOver = FALSE
  /\ dragCounter = 0
  /\ dragLog = <<>>
  /\ inflight = <<>>
  /\ pickerValue = ""
  /\ ev = Event("init", <<>>, <<>>, FALSE, <<>>)
  /\ PanelUnmounted

ProbeSelect ==
  /\ Len(contentBlocks) < MaxProbes
  /\ inflight = <<>>
  /\ \E f \in universe : handleFileUpload(<<f>>)

ProbeDrop ==
  /\ Len(contentBlocks) < MaxProbes
  /\ inflight = <<>>
  /\ \E f \in universe : handleWindowDrop(<<f>>)

ProbePaste ==
  /\ Len(contentBlocks) < MaxProbes
  /\ inflight = <<>>
  /\ \E f \in universe : handlePaste(<<StringItem, FileItem(f)>>)

ProbeNext ==
  \/ ProbeSelect
  \/ ProbeDrop
  \/ ProbePaste
  \/ ReadResolves
  \/ ReadRejects

\* the user has one file and ingests it up to MaxProbes times, one call
\* after the other
ProbeSpec == ProbeInit /\ [][ProbeNext]_vars

\* ------------------------------------------- sessions of overlapping calls

\* an entry point runs whether or not an earlier call is suspended: each
\* call closes over the collection rendered when it starts
OverlapSelect == \E files \in Batches : handleFileUpload(files)

OverlapDrop == \E files \in Batches : handleWindowDrop(files)

OverlapPaste ==
  \E files \in Batches :
    handlePaste(<<StringItem>> \o [i \in 1..Len(files) |-> FileItem(files[i])])

OverlapInit ==
  /\ universe = {aTxt, upperATxt}
  /\ contentBlocks = <<>>
  /\ dragOver = FALSE
  /\ dragCounter = 0
  /\ dragLog = <<>>
  /\ inflight = <<>>
  /\ pickerValue = ""
  /\ ev = Event("init", <<>>, <<>>, FALSE, <<>>)
  /\ PanelUnmounted

OverlapNext ==
  \/ OverlapSelect
  \/ OverlapDrop
  \/ OverlapPaste
  \/ ReadResolves
  \/ ReadRejects
  \/ Remove
  \/ Reset

OverlapSpec == OverlapInit /\ [][OverlapNext]_vars

\* ------------------------------------------------ sessions with fairness

\* a read of the t-th suspended call settles
Settle(t) ==
  /\ t <= Len(inflight)
  /\ \E i \in 1..Len(inflight[t].files) : readResolves(t, i) \/ readRejects(t, i)

LiveInit ==
  /\ universe = {aTxt, aTxtYo}
  /\ contentBlocks = <<>>
  /\ dragOver = FALSE
  /\ dragCounter = 0
  /\ dragLog = <<>>
  /\ inflight = <<>>
  /\ pickerValue = ""
  /\ ev = Event("init", <<>>, <<>>, FALSE, <<>>)
  /\ PanelUnmounted

\* every read that was launched settles: FileReader fires onload or
\* onerror, file.text() resolves or rejects
LiveSpec ==
  LiveInit /\ [][Next]_vars /\ \A t \in 1..MaxTasks : WF_vars(Settle(t))

\* ------------------------------------------------------- drag sessions

WindowDragEnter == \E hasFiles \in BOOLEAN : handleWindowDragEnter(hasFiles)

WindowDragLeave == \E hasFiles \in BOOLEAN : handleWindowDragLeave(hasFiles)

WindowDragEnd == handleWindowDragEnd

WindowDragOver == handleWindowDragOver

DropWithoutTransfer == handleWindowDropNoTransfer

ElementDragOver == handleDragOver

ElementDragEnter == handleDragEnter

ElementDragLeave == handleDragLeave

DragInit ==
  /\ universe = {aPng, aZip}
  /\ contentBlocks = <<>>
  /\ dragOver = FALSE
  /\ dragCounter = 0
  /\ dragLog = <<>>
  /\ inflight = <<>>
  /\ pickerValue = ""
  /\ ev = Event("init", <<>>, <<>>, FALSE, <<>>)
  /\ PanelUnmounted

DragNext ==
  \/ WindowDragEnter
  \/ WindowDragLeave
  \/ WindowDragEnd
  \/ WindowDragOver
  \/ Drop
  \/ DropWithoutTransfer
  \/ ElementDragOver
  \/ ElementDragEnter
  \/ ElementDragLeave
  \/ ReadResolves
  \/ ReadRejects
  \/ Remove
  \/ Reset

\* the user drags files over the window and the drop target, drops them,
\* and removes or resets attachments in between
DragSpec == DragInit /\ [][DragNext]_vars

\* --------------------------------------------------- two-file sessions

\* files that share a name or a media type with one another
PairFiles ==
  {aTxt, upperATxt, aTxtPng, aTxtPdf, aPng, aPngJpeg, aPngPdf, bPng, aPdf,
   notes, notesPng, notesPdf}

PairInit ==
  /\ universe \in {u \in SUBSET PairFiles : Cardinality(u) = 2}
  /\ contentBlocks = <<>>
  /\ dragOver = FALSE
  /\ dragCounter = 0
  /\ dragLog = <<>>
  /\ inflight = <<>>
  /\ pickerValue = ""
  /\ ev = Event("init", <<>>, <<>>, FALSE, <<>>)
  /\ PanelUnmounted

\* the user has two files and ingests one of them at a time, up to
\* MaxProbes times, one call after the other
PairSpec == PairInit /\ [][ProbeNext]_vars

\* ------------------------------------------------- configuration panel

\* A JavaScript value of the configuration: t is its type; n holds a number
\* (its integer part) or a boolean (1, 0); s holds a string, or the fraction
\* digits of a number; m holds the members of an object in insertion order,
\* as <<key, value>> pairs, or the elements of an array (pairs with the
\* empty key).
JVal(t, n, str, m) ==
  [t |-> t, n |-> n, s |-> str, m |-> m]

JNull == JVal("null", 0, <<>>, <<>>)

JBool(b) == JVal("boolean", IF b THEN 1 ELSE 0, <<>>, <<>>)

JNum(n, frac) == JVal("number", n, frac, <<>>)

JStr(str) == JVal("string", 0, str, <<>>)

JObj(m) == JVal("object", 0, <<>>, m)

JArr(m) == JVal("array", 0, <<>>, m)

\* the keys of the configuration the panel writes
Key ==
  [ tags |-> <<"t", "a", "g", "s">>,
    configurable |-> <<"c", "o", "n", "f", "i", "g", "u", "r", "a", "b",
        "l", "e">>,
    use_local_model |-> <<"u", "s", "e", "_", "l", "o", "c", "a", "l", "_",
        "m", "o", "d", "e", "l">>,
    response_model |-> <<"r", "e", "s", "p", "o", "n", "s", "e", "_", "m",
        "o", "d", "e", "l">>,
    embedding_model |-> <<"e", "m", "b", "e", "d", "d", "i", "n", "g", "_",
        "m", "o", "d", "e", "l">>,
    search_kwargs |-> <<"s", "e", "a", "r", "c", "h", "_", "k", "w", "a",
        "r", "g", "s">>,
    rerank_kwargs |-> <<"r", "e", "r", "a", "n", "k", "_", "k", "w", "a",
        "r", "g", "s">>,
    max_iterations |-> <<"m", "a", "x", "_", "i", "t", "e", "r", "a", "t",
        "i", "o", "n", "s">> ]

\* the model names of the Use Local Model switch and of the model selects
Model ==
  [ ollamaQwen |-> <<"o", "l", "l", "a", "m", "a", "/", "q", "w", "e", "n",
        "3", ":", "1", "4", "b">>,
    ollamaNomic |-> <<"o", "l", "l", "a", "m", "a", "/", "n", "o", "m",
        "i", "c", "-", "e", "m", "b", "e", "d", "-", "t", "e", "x", "t">>,
    openaiMini |-> <<"o", "p", "e", "n", "a", "i", "/", "g", "p", "t", "-",
        "4", ".", "1", "-", "m", "i", "n", "i">>,
    openaiSmall |-> <<"o", "p", "e", "n", "a", "i", "/", "t", "e", "x",
        "t", "-", "e", "m", "b", "e", "d", "d", "i", "n", "g", "-", "3",
        "-", "s", "m", "a", "l", "l">>,
    openaiGpt41 |-> <<"o", "p", "e", "n", "a", "i", "/", "g", "p", "t",
        "-", "4", ".", "1">>,
    ollamaLlama |-> <<"o", "l", "l", "a", "m", "a", "/", "l", "l", "a",
        "m", "a", "3", "-", "g", "r", "o", "q", "-", "t", "o", "o", "l",
        "-", "u", "s", "e", ":", "8", "b">> ]

\* obj[key], with undefined as the absent marker
HasMember(m, key) ==
  \E i \in 1..Len(m) : m[i][1] = key

member(m, key) ==
  m[CHOOSE i \in 1..Len(m) : m[i][1] = key][2]

\* { ...obj, [key]: value }: an own key keeps its position and takes the new
\* value, a new key goes last
setMember(m, key, value) ==
  IF HasMember(m, key)
  THEN [i \in 1..Len(m) |-> IF m[i][1] = key THEN <<key, value>> ELSE m[i]]
  ELSE Append(m, <<key, value>>)

\* { ...localConfig.configurable }: spreading undefined gives no member
spreadConfigurable(cfg) ==
  IF HasMember(cfg.m, Key.configurable) /\ member(cfg.m, Key.configurable).t = "object"
  THEN member(cfg.m, Key.configurable).m
  ELSE <<>>

\* { ...localConfig, configurable: { ...localConfig.configurable, [key]: value } }
withConfigurable(cfg, key, value) ==
  JObj(setMember(cfg.m, Key.configurable,
                 JObj(setMember(spreadConfigurable(cfg), key, value))))

\* ---- JSON.parse, for texts without exponents and without string escapes

Digits == {"0", "1", "2", "3", "4", "5", "6", "7", "8", "9"}

DigitValue(c) ==
  CHOOSE d \in 0..9 : <<"0", "1", "2", "3", "4", "5", "6", "7", "8", "9">>[d + 1] = c

Fail == [ok |-> FALSE, val |-> JNull, i |-> 0]

Parsed(val, i) == [ok |-> TRUE, val |-> val, i |-> i]

RECURSIVE skipWs(_, _)
\* the index of the first character at or after i that is not white space
skipWs(text, i) ==
  IF i <= Len(text) /\ text[i] \in {" ", "\n", "\t", "\r"}
  THEN skipWs(text, i + 1)
  ELSE i

RECURSIVE digitsEnd(_, _)
\* the index after the run of digits that starts at i
digitsEnd(text, i) ==
  IF i <= Len(text) /\ text[i] \in Digits THEN digitsEnd(text, i + 1) ELSE i

RECURSIVE natOf(_)
\* the number a run of digits denotes
natOf(d) ==
  IF d = <<>> THEN 0
  ELSE 10 * natOf(SubSeq(d, 1, Len(d) - 1)) + DigitValue(d[Len(d)])

RECURSIVE stripZeros(_)
\* fraction digits without trailing zeros: 0.50 and 0.5 are one number
stripZeros(d) ==
  IF d # <<>> /\ d[Len(d)] = "0" THEN stripZeros(SubSeq(d, 1, Len(d) - 1))
  ELSE d

\* number: -? (0 | [1-9][0-9]*) (. [0-9]+)?
parseNumber(text, i) ==
  LET neg     == text[i] = "-"
      a       == IF neg THEN i + 1 ELSE i
      b       == digitsEnd(text, a)
      intOk   == b > a /\ (text[a] = "0" => b = a + 1)
      hasFrac == b <= Len(text) /\ text[b] = "."
      c       == IF hasFrac THEN digitsEnd(text, b + 1) ELSE b
      fracOk  == hasFrac => c > b + 1
      n       == natOf(SubSeq(text, a, b - 1))
      frac    == IF hasFrac THEN stripZeros(SubSeq(text, b + 1, c - 1)) ELSE <<>>
  IN  IF intOk /\ fracOk
      THEN Parsed(JNum(IF neg THEN 0 - n ELSE n, frac), c)
      ELSE Fail

\* string: the characters between two double quotes; no line break inside
parseString(text, i) ==
  LET closing == {j \in (i + 1)..Len(text) : text[j] = "\""}
      j       == CHOOSE x \in closing : \A y \in closing : x <= y
  IN  IF i > Len(text) \/ text[i] # "\"" \/ closing = {} THEN Fail
      ELSE IF \E x \in (i + 1)..(j - 1) : text[x] \in {"\n", "\t", "\r", "\\"}
      THEN Fail
      ELSE Parsed(JStr(SubSeq(text, i + 1, j - 1)), j + 1)

\* true, false, null
parseLiteral(text, i, word, val) ==
  IF i + Len(word) - 1 <= Len(text) /\ SubSeq(text, i, i + Len(word) - 1) = word
  THEN Parsed(val, i + Len(word))
  ELSE Fail

RECURSIVE parseValue(_, _)
RECURSIVE parseMembers(_, _, _)
RECURSIVE parseElements(_, _, _)

\* the members of an object after "{" or ",": "key" : value, then "," or "}"
parseMembers(text, i, acc) ==
  LET k     == parseString(text, skipWs(text, i))
      colon == skipWs(text, k.i)
      v     == parseValue(text, colon + 1)
      next  == skipWs(text, v.i)
  IN  IF ~k.ok \/ colon > Len(text) \/ text[colon] # ":" THEN Fail
      ELSE IF ~v.ok \/ next > Len(text) THEN Fail
      ELSE IF text[next] = "}"
      THEN Parsed(JObj(setMember(acc, k.val.s, v.val)), next + 1)
      ELSE IF text[next] = ","
      THEN parseMembers(text, next + 1, setMember(acc, k.val.s, v.val))
      ELSE Fail

\* the elements of an array after "[" or ",": value, then "," or "]"
parseElements(text, i, acc) ==
  LET v    == parseValue(text, i)
      next == skipWs(text, v.i)
  IN  IF ~v.ok \/ next > Len(text) THEN Fail
      ELSE IF text[next] = "]"
      THEN Parsed(JArr(Append(acc, <<<<>>, v.val>>)), next + 1)
      ELSE IF text[next] = ","
      THEN parseElements(text, next + 1, Append(acc, <<<<>>, v.val>>))
      ELSE Fail

parseValue(text, i0) ==
  LET i == skipWs(text, i0)
      j == skipWs(text, i + 1)
  IN  IF i > Len(text) THEN Fail
      ELSE IF text[i] = "{"
      THEN IF j <= Len(text) /\ text[j] = "}" THEN Parsed(JObj(<<>>), j + 1)
           ELSE parseMembers(text, i + 1, <<>>)
      ELSE IF text[i] = "["
      THEN IF j <= Len(text) /\ text[j] = "]" THEN Parsed(JArr(<<>>), j + 1)
           ELSE parseElements(text, i + 1, <<>>)
      ELSE IF text[i] = "\"" THEN parseString(text, i)
      ELSE IF text[i] \in Digits \cup {"-"} THEN parseNumber(text, i)
      ELSE IF text[i] = "t" THEN parseLiteral(text, i, <<"t", "r", "u", "e">>, JBool(TRUE))
      ELSE IF text[i] = "f"
      THEN parseLiteral(text, i, <<"f", "a", "l", "s", "e">>, JBool(FALSE))
      ELSE IF text[i] = "n" THEN parseLiteral(text, i, <<"n", "u", "l", "l">>, JNull)
      ELSE Fail

\* mutant of JSONparse: text that does not parse yields the empty object
JSONparse_lenient(text) ==
  LET r == parseValue(text, 1)
  IN  IF r.ok /\ skipWs(text, r.i) = Len(text) + 1
      THEN [ok |-> TRUE, val |-> r.val]
      ELSE [ok |-> TRUE, val |-> JObj(<<>>)]

\* JSON.parse(text): ok is FALSE where it throws a SyntaxError
JSONparse(text) ==
  LET r == parseValue(text, 1)
  IN  IF r.ok /\ skipWs(text, r.i) = Len(text) + 1
      THEN [ok |-> TRUE, val |-> r.val]
      ELSE [ok |-> FALSE, val |-> JNull]

\* ---- what the user and the parent feed the panel

\* texts typed into the two JSON fields: seven valid ones, then invalid ones
JsonText ==
  [ k4 |-> <<"{", "\"", "k", "\"", ":", " ", "4", "}">>,
    fetch |-> <<"{", "\n", " ", " ", "\"", "f", "e", "t", "c", "h", "_",
        "k", "\"", ":", " ", "1", "5", "\n", "}">>,
    empty |-> <<"{", "}">>,
    flash |-> <<"{", "\"", "t", "o", "p", "_", "n", "\"", ":", " ", "3",
        ",", " ", "\"", "s", "c", "o", "r", "e", "_", "t", "h", "r", "e",
        "s", "h", "o", "l", "d", "\"", ":", " ", "0", ".", "7", "5", "}">>,
    nested |-> <<"{", "\"", "a", "\"", ":", " ", "[", "t", "r", "u", "e",
        ",", " ", "n", "u", "l", "l", "]", ",", " ", "\"", "k", "\"", ":",
        " ", "\"", "x", "\"", "}">>,
    number |-> <<"4">>,
    null |-> <<"n", "u", "l", "l">>,
    open |-> <<"{", "\"", "k", "\"", ":", " ", "4">>,
    blank |-> <<>>,
    bareKey |-> <<"{", "k", ":", " ", "4", "}">>,
    trailingComma |-> <<"{", "\"", "k", "\"", ":", " ", "4", ",", "}">>,
    singleQuotes |-> <<"{", "'", "k", "'", ":", " ", "4", "}">>,
    noColon |-> <<"{", "\"", "k", "\"", " ", "4", "}">>,
    leadingZero |-> <<"{", "\"", "k", "\"", ":", " ", "0", "4", "}">>,
    twice |-> <<"{", "}", " ", "{", "}">> ]

JsonTexts ==
  {JsonText[x] : x \in DOMAIN JsonText}

\* the options of the Response Model select
ResponseModels == {Model.ollamaQwen, Model.ollamaLlama, Model.openaiMini, Model.openaiGpt41}

\* most events (edits of the user, configs supplied by the parent) that
\* create an object in one session
MaxEdits == 2

\* most effect flushes the model follows after one event
MaxRounds == 4

\* configs the parent mounts the panel with, or supplies later: the empty
\* object, a cloud configuration with tags and other keys, and a local one
\* with models of the user's choice
ParentConfigs ==
  { JObj(<<>>),
    JObj(<< <<Key.tags, JArr(<< <<<<>>, JStr(<<"t">>)>> >>)>>,
            <<Key.configurable,
              JObj(<< <<Key.use_local_model, JBool(FALSE)>>,
                      <<Key.response_model, JStr(Model.openaiGpt41)>>,
                      <<Key.max_iterations, JNum(3, <<>>)>>,
                      <<Key.search_kwargs, JObj(<< <<<<"k">>, JNum(4, <<>>)>> >>)>> >>)>> >>),
    JObj(<< <<Key.configurable,
              JObj(<< <<Key.use_local_model, JBool(TRUE)>>,
                      <<Key.response_model, JStr(Model.ollamaLlama)>>,
                      <<Key.embedding_model, JStr(Model.ollamaNomic)>>,
                      <<Key.rerank_kwargs, JObj(<<>>)>> >>)>> >>) }

\* ---- the component

\* the input of the switch, as the event records it
BoolText(b) ==
  IF b THEN <<"t", "r", "u", "e">> ELSE <<"f", "a", "l", "s", "e">>

\* what the handler that ran last did: its input (the text typed, the option
\* chosen, the position of the switch) and the value it made
PanelEvent(op, arg, value) ==
  [op |-> op, arg |-> arg, value |-> value, calls |-> <<>>, rounds |-> 0]

\* an effect waits to run: one of its dependencies is not the object it saw
\* when it last ran
EffectsPending ==
  \/ effectDeps.config # config.ref
  \/ effectDeps.localConfig # localConfig.ref

\* setLocalConfig(next) in an event handler of the panel; React runs the
\* handlers of an event after the effects of the earlier commits
editLocalConfig(op, arg, val) ==
  /\ ~EffectsPending
  /\ nextRef <= MaxEdits + 1
  /\ localConfig' = [ref |-> nextRef, val |-> val]
  /\ nextRef' = nextRef + 1
  /\ panelEv' = PanelEvent(op, arg, val)
  /\ UNCHANGED <<config, effectDeps, uploadVars>>

\* mutant of onUseLocalModelChange: the switch sets use_local_model only
onUseLocalModelChange_keepModels(checked) ==
  editLocalConfig("useLocalModel", BoolText(checked),
    withConfigurable(localConfig.val, Key.use_local_model, JBool(checked)))

\* the Use Local Model switch: onCheckedChange
onUseLocalModelChange(checked) ==
  LET cfg  == localConfig.val
      one  == withConfigurable(cfg, Key.use_local_model, JBool(checked))
      two  == withConfigurable(one, Key.response_model,
                JStr(IF checked THEN Model.ollamaQwen ELSE Model.openaiMini))
      all  == withConfigurable(two, Key.embedding_model,
                JStr(IF checked THEN Model.ollamaNomic ELSE Model.openaiSmall))
  IN  editLocalConfig("useLocalModel", BoolText(checked), all)

\* the Response Model select: onChange
onResponseModelChange(value) ==
  editLocalConfig("responseModel", value,
    withConfigurable(localConfig.val, Key.response_model, JStr(value)))

\* the onChange of a JSON field: the text is parsed and, when it parses,
\* stored under the key of the field; when JSON.parse throws, the catch
\* block does nothing
onKwargsChange(op, key, text) ==
  LET parsed == JSONparse(text)
  IN  IF parsed.ok
      THEN editLocalConfig(op, text,
             withConfigurable(localConfig.val, key, parsed.val))
      ELSE /\ ~EffectsPending
           /\ panelEv' = PanelEvent(op, text, localConfig.val)
           /\ UNCHANGED <<config, localConfig, effectDeps, nextRef, uploadVars>>

\* the Search Parameters (JSON) field
onSearchKwargsChange(text) ==
  onKwargsChange("searchKwargs", Key.search_kwargs, text)

\* the Rerank Parameters (JSON) field
onRerankKwargsChange(text) ==
  onKwargsChange("rerankKwargs", Key.rerank_kwargs, text)

\* the parent renders the panel with a new config object
parentSupplies(val) ==
  /\ ~EffectsPending
  /\ nextRef <= MaxEdits + 1
  /\ config' = [ref |-> nextRef, val |-> val]
  /\ nextRef' = nextRef + 1
  /\ panelEv' = PanelEvent("parent", <<>>, val)
  /\ UNCHANGED <<localConfig, effectDeps, uploadVars>>

\* useEffect(() => setLocalConfig(config), [config]): the object the local
\* copy is set to
syncFromConfig ==
  config

\* the callback of the parent, of stable identity: the parent keeps the
\* object it is given and renders the panel with it as config
onConfigChange(cfg) ==
  cfg

\* mutant of autoApply: the callback is called by the Apply button only
autoApply_onApplyOnly ==
  config

\* useEffect(() => onConfigChange(localConfig), [localConfig,
\* onConfigChange]): the object the parent holds after the effect
autoApply ==
  onConfigChange(localConfig)

\* React commits a render and runs the effects whose dependencies changed,
\* in the order of their declaration; both read the config and the
\* localConfig of the render, and the state they set is rendered next
flushEffects ==
  LET syncs   == effectDeps.config # config.ref
      applies == effectDeps.localConfig # localConfig.ref
  IN  /\ syncs \/ applies
      /\ panelEv.rounds < MaxRounds
      /\ localConfig' = (IF syncs THEN syncFromConfig ELSE localConfig)
      /\ config' = (IF applies THEN autoApply ELSE config)
      /\ effectDeps' = [config |-> config.ref, localConfig |-> localConfig.ref]
      /\ panelEv' = [panelEv EXCEPT
                       !.calls = IF applies THEN Append(@, localConfig.val) ELSE @,
                       !.rounds = @ + 1]
      /\ UNCHANGED <<nextRef, uploadVars>>

\* ---- sessions of the configuration panel

FlushEffects == flushEffects

\* the panel is mounted: useState(config) makes the local copy the object of
\* the prop, and both effects wait to run
ConfigInit ==
  /\ universe = {}
  /\ contentBlocks = <<>>
  /\ dragOver = FALSE
  /\ dragCounter = 0
  /\ dragLog = <<>>
  /\ inflight = <<>>
  /\ pickerValue = ""
  /\ ev = Event("init", <<>>, <<>>, FALSE, <<>>)
  /\ \E val \in ParentConfigs :
       /\ config = [ref |-> 1, val |-> val]
       /\ localConfig = [ref |-> 1, val |-> val]
       /\ panelEv = PanelEvent("mount", <<>>, val)
  /\ effectDeps = [config |-> 0, localConfig |-> 0]
  /\ nextRef = 2

ConfigNext ==
  \/ \E checked \in BOOLEAN : onUseLocalModelChange(checked)
  \/ \E value \in ResponseModels : onResponseModelChange(value)
  \/ \E text \in JsonTexts : onSearchKwargsChange(text)
  \/ \E text \in JsonTexts : onRerankKwargsChange(text)
  \/ \E val \in ParentConfigs : parentSupplies(val)
  \/ FlushEffects

ConfigSpec == ConfigInit /\ [][ConfigNext]_vars

\* React runs the effects of every commit
ConfigLiveSpec == ConfigInit /\ [][ConfigNext]_vars /\ WF_vars(FlushEffects)

\* ------------------------------------------------- vocabulary of the claims

\* the handlers that start an ingestion call
IngestOps == {"select", "drop", "paste"}

\* the call in flight was launched with these files and none of its reads
\* has settled
Launched(task, files) ==
  /\ task.files = files
  /\ task.order = <<>>
  /\ \A i \in 1..Len(task.values) : task.values[i] = Unsettled

\* the number of positions of s that hold x
Count(s, x) ==
  Cardinality({i \in 1..Len(s) : s[i] = x})

\* the "File: <name>\n\n" prefix of a Text block: its text up to and
\* including the first blank line
textPrefix(text) ==
  LET ends == {k \in 2..Len(text) : text[k - 1] = "\n" /\ text[k] = "\n"}
  IN  IF ends = {} THEN text
      ELSE SubSeq(text, 1, CHOOSE k \in ends : \A m \in ends : k <= m)

\* the identity rule between two blocks of the same variant
Indistinguishable(b1, b2) ==
  \/ /\ b1.type = "text" /\ b2.type = "text"
     /\ textPrefix(b1.text) = textPrefix(b2.text)
  \/ /\ b1.type = "file" /\ b2.type = "file"
     /\ b1.metadata.filename = b2.metadata.filename
  \/ /\ b1.type = "image" /\ b2.type = "image"
     /\ b1.metadata.name = b2.metadata.name
     /\ b1.mime_type = b2.mime_type

\* some block of the collection carries this file name, in any variant
NameOccurs(name, blocks) ==
  \E i \in 1..Len(blocks) :
    \/ blocks[i].type = "text" /\ textPrefix(blocks[i].text) = FilePrefix(name)
    \/ blocks[i].type = "file" /\ blocks[i].metadata.filename = name
    \/ blocks[i].type = "image" /\ blocks[i].metadata.name = name

\* the collection holds the block of a file with the name and the declared
\* media type of f
HoldsBlockOf(f, blocks) ==
  \E i \in 1..Len(blocks) : \E g \in universe :
    /\ g.name = f.name
    /\ g.type = f.type
    /\ materializerBranch(g) \in {"image", "file", "text"}
    /\ blocks[i] = fileToContentBlock(g)

\* the file names the duplicate toasts of a call name
DuplicateNames(toasts) ==
  UNION { {toasts[i].names[k] : k \in 1..Len(toasts[i].names)} :
            i \in {j \in 1..Len(toasts) : toasts[j].msg = "duplicate"} }

\* the call emitted the unsupported-type toast
InvalidToasted(toasts) ==
  \E i \in 1..Len(toasts) : toasts[i].msg \in {"invalid-upload", "invalid-paste"}

\* the blocks of a file list, in the order of the list
BlocksOf(files) ==
  [k \in 1..Len(files) |-> fileToContentBlock(files[k])]

\* ------------------------------------------------------------------ claims

\* C1: in every reachable state the collection holds no two blocks of the
\* same variant that the identity rule cannot tell apart.
C1_NoIndistinguishableBlocks ==
  \A i, j \in 1..Len(contentBlocks) :
    i < j => ~Indistinguishable(contentBlocks[i], contentBlocks[j])

\* C2: when the collection holds the block of a file, an ingestion call given
\* a supported file with the same name and declared media type names it in
\* the duplicate toast, does not read it and leaves the collection unchanged.
C2_ReingestIsFlagged ==
  [][ev'.op \in IngestOps =>
       \A k \in 1..Len(ev'.files) :
         LET f == ev'.files[k]
         IN  (isFileSupported(f) /\ HoldsBlockOf(f, contentBlocks)) =>
               /\ f.name \in DuplicateNames(ev'.toasts)
               /\ contentBlocks' = contentBlocks
               /\ \/ inflight' = inflight
                  \/ Count(inflight'[Len(inflight')].files, f) = 0]_vars

\* C3: two supported files with the same name and type in one batch, whose
\* name no block of the snapshot carries, are both classified unique (no
\* duplicate toast names them, both are read) and both are appended.
C3_SameBatchTwinsBothUnique ==
  [][/\ ev'.op \in IngestOps =>
          \A i, j \in 1..Len(ev'.files) :
            LET f == ev'.files[i]
            IN  (/\ i < j
                 /\ ev'.files[j].name = f.name
                 /\ ev'.files[j].type = f.type
                 /\ isFileSupported(f)
                 /\ isFileSupported(ev'.files[j])
                 /\ ~NameOccurs(f.name, contentBlocks)) =>
                  /\ f.name \notin DuplicateNames(ev'.toasts)
                  /\ Len(inflight') = Len(inflight) + 1
                  /\ Count(inflight'[Len(inflight')].files, f) = Count(ev'.files, f)
     /\ ev'.op = "appended" =>
          \A k \in 1..Len(ev'.files) :
            LET b == fileToContentBlock(ev'.files[k])
            IN  Count(contentBlocks', b)
                  = Count(contentBlocks, b) + Count(BlocksOf(ev'.files), b)]_vars

\* C3 witness: a batch of two equal files was read and appended twice
C3_Witness ==
  /\ ev.op = "appended"
  /\ Len(ev.files) = 2
  /\ ev.files[1] = ev.files[2]
  /\ contentBlocks = BlocksOf(ev.files)

\* C4: when a call resumes, the collection is the collection as it stood at
\* that moment followed by the blocks of the call's unique files in input
\* order, whatever the order in which the reads completed.
C4_AppendInInputOrder ==
  [][ev'.op = "appended" =>
       contentBlocks' = contentBlocks \o BlocksOf(ev'.files)]_vars

\* C4 witness: two different files were appended to a non-empty collection
\* after the read of the second completed before the read of the first
C4_Witness ==
  /\ ev.op = "appended"
  /\ ev.order = <<2, 1>>
  /\ ev.files[1] # ev.files[2]
  /\ Len(contentBlocks) = 3

\* C5: a call one of whose reads fails appends nothing, the settled siblings
\* included; the steps of the call before the failure do not change the
\* collection either, the call is no longer in flight afterwards, and in the
\* state after the failure reset, removal and (room permitting) each
\* ingestion entry point can run.
C5_FailedBatchAppendsNothing ==
  [][/\ ev'.op = "failed" =>
          /\ contentBlocks' = contentBlocks
          /\ Len(inflight') = Len(inflight) - 1
     /\ (ev'.op \in IngestOps /\ inflight' # inflight) =>
          contentBlocks' = contentBlocks
     /\ ev'.op = "read" => contentBlocks' = contentBlocks]_vars
  /\ [](ev.op = "failed" =>
          /\ ENABLED Reset
          /\ ENABLED Remove
          /\ (Len(contentBlocks) + Pending < MaxBlocks /\ Len(inflight) < MaxTasks) =>
               \A f \in universe :
                 /\ ENABLED handleFileUpload(<<f>>)
                 /\ ENABLED handleWindowDrop(<<f>>)
                 /\ ENABLED handlePaste(<<FileItem(f)>>))

\* C5 witness: a call failed after the read of a sibling had succeeded, with
\* blocks in the collection
C5_Witness ==
  /\ ev.op = "failed"
  /\ Len(ev.files) = 2
  /\ Len(ev.order) = 1
  /\ Len(contentBlocks) > 0

\* C6: a file the support gate rejects never contributes a block: a call
\* whose files are all unsupported emits the unsupported toast and changes
\* neither the collection nor the reads in flight, and the files a call reads
\* and appends are supported files of its input, in input order, every
\* supported file it leaves out being named in the duplicate toast.
C6_UnsupportedNeverAppended ==
  [][/\ (/\ ev'.op \in IngestOps
         /\ Len(ev'.files) > 0
         /\ \A k \in 1..Len(ev'.files) : ~isFileSupported(ev'.files[k])) =>
          /\ InvalidToasted(ev'.toasts)
          /\ contentBlocks' = contentBlocks
          /\ inflight' = inflight
     /\ (ev'.op \in IngestOps /\ inflight' # inflight) =>
          LET read == inflight'[Len(inflight')].files
              isRead(f) == Count(read, f) > 0
          IN  /\ read = SelectSeq(ev'.files, isRead)
              /\ \A k \in 1..Len(read) : isFileSupported(read[k])
              /\ \A k \in 1..Len(ev'.files) :
                   (isFileSupported(ev'.files[k]) /\ ~isRead(ev'.files[k])) =>
                     ev'.files[k].name \in DuplicateNames(ev'.toasts)
     /\ ev'.op = "appended" =>
          \A k \in 1..Len(ev'.files) : isFileSupported(ev'.files[k])]_vars

\* C6 witness: a call given only a .zip file of type application/zip emitted
\* the unsupported toast and left a non-empty collection as it was
C6_Witness ==
  /\ ev.op \in IngestOps
  /\ ev.files = <<aZip>>
  /\ InvalidToasted(ev.toasts)
  /\ inflight = <<>>
  /\ contentBlocks = <<fileToContentBlock(aPng)>>

\* ----------------------------------------- claims on the one-file sessions

\* the file name, lower-cased, ends with an allow-listed text extension
HasTextExtension(name) ==
  \E ext \in SUPPORTED_TEXT_EXTENSIONS :
    /\ Len(ext) <= Len(name)
    /\ \A k \in 1..Len(ext) :
         toLowerCase(name)[Len(name) - Len(ext) + k] = ext[k]

\* the four allow-listed image types
ImageTypes == {T_jpeg, T_png, T_gif, T_webp}

\* the one file of the session passed the gate: no call given it emitted the
\* unsupported toast, and the first call started reading it
Accepted(f) ==
  /\ ev.op \in IngestOps => ~InvalidToasted(ev.toasts)
  /\ (ev.op \in IngestOps /\ contentBlocks = <<>>) =>
       (Len(inflight) = 1 /\ Launched(inflight[1], <<f>>))

\* the one file of the session was rejected: every call given it emitted the
\* unsupported toast, nothing is read and nothing is appended
Rejected(f) ==
  /\ ev.op \in IngestOps => InvalidToasted(ev.toasts)
  /\ inflight = <<>>
  /\ contentBlocks = <<>>

\* every block of the collection is the Text block of f
AllText(f) ==
  \A i \in 1..Len(contentBlocks) :
    contentBlocks[i] = [type |-> "text", text |-> FilePrefix(f.name) \o f.content]

\* every block of the collection is the Image block of f
AllImage(f) ==
  \A i \in 1..Len(contentBlocks) :
    /\ contentBlocks[i].type = "image"
    /\ contentBlocks[i].mime_type = f.type
    /\ contentBlocks[i].metadata = [name |-> f.name]

\* every block of the collection is the Document block of f
AllDocument(f) ==
  \A i \in 1..Len(contentBlocks) :
    /\ contentBlocks[i].type = "file"
    /\ contentBlocks[i].mime_type = T_pdf
    /\ contentBlocks[i].metadata = [filename |-> f.name]

\* C7 as stated: a file of the empty or the generic binary type is accepted
\* (as Text) only if its name has an allow-listed text extension, and is
\* rejected with any other name.
C7_GenericTypeNeedsExtension ==
  \A f \in universe :
    f.type \in {T_empty, T_octet} =>
      IF HasTextExtension(f.name)
      THEN Accepted(f) /\ AllText(f)
      ELSE Rejected(f)

\* C7 amended: a file of the empty or the generic binary type is accepted and
\* materialized as Text whatever its name is, with or without an allow-listed
\* text extension.
C7_GenericTypeAcceptedAsText ==
  \A f \in universe :
    f.type \in {T_empty, T_octet} => Accepted(f) /\ AllText(f)

\* C7 witness: a file named "notes" with the empty media type was read and
\* appended as a Text block
C7_Witness ==
  /\ ev.op = "appended"
  /\ ev.files = <<File(<<"n","o","t","e","s">>, T_empty, C_hi)>>
  /\ contentBlocks = <<[type |-> "text",
                        text |-> <<"F","i","l","e",":"," ","n","o","t","e","s","\n","\n","h","i">>]>>

\* C8: a file of an allow-listed image type is accepted and materialized as
\* an Image block with its declared type and its name, whatever its name is.
C8_ImageTypeYieldsImage ==
  \A f \in universe :
    f.type \in ImageTypes => Accepted(f) /\ AllImage(f)

\* C8 witness: a.txt of type image/png was appended as an Image block
C8_Witness ==
  /\ ev.op = "appended"
  /\ ev.files = <<aTxtPng>>
  /\ Len(contentBlocks) = 1
  /\ contentBlocks[1].type = "image"
  /\ contentBlocks[1].mime_type = T_png
  /\ contentBlocks[1].metadata.name = <<"a",".","t","x","t">>

\* C9: a file whose name has an allow-listed text extension is accepted
\* whatever its declared type is, and materialized as Text unless the type is
\* an allow-listed image type (Image) or application/pdf (Document).
C9_TextExtensionYieldsText ==
  \A f \in universe :
    HasTextExtension(f.name) =>
      /\ Accepted(f)
      /\ IF f.type \in ImageTypes THEN AllImage(f)
         ELSE IF f.type = T_pdf THEN AllDocument(f)
         ELSE AllText(f)

\* C9 witness: A.MD of an unknown media type was appended as a Text block
C9_Witness ==
  /\ ev.op = "appended"
  /\ ev.files = <<File(<<"A",".","M","D">>, T_garbage, C_hi)>>
  /\ contentBlocks = <<[type |-> "text",
                        text |-> <<"F","i","l","e",":"," ","A",".","M","D","\n","\n","h","i">>]>>

\* the identity rule of the variant the materializer gives the file, against
\* the blocks of a collection
MatchesByVariantRule(f, blocks) ==
  \E i \in 1..Len(blocks) :
    \/ /\ materializerBranch(f) = "image"
       /\ blocks[i].type = "image"
       /\ blocks[i].metadata.name = f.name
       /\ blocks[i].mime_type = f.type
    \/ /\ materializerBranch(f) = "file"
       /\ blocks[i].type = "file"
       /\ blocks[i].metadata.filename = f.name
    \/ /\ materializerBranch(f) = "text"
       /\ blocks[i].type = "text"
       /\ startsWith(blocks[i].text, FilePrefix(f.name))

\* C10: an ingestion call leaves a supported file unread as a duplicate
\* exactly when a block of the snapshot matches it under the identity rule of
\* the variant the materializer gives the file.
C10_DuplicateRuleFollowsVariant ==
  [][ev'.op \in IngestOps =>
       \A k \in 1..Len(ev'.files) :
         LET f == ev'.files[k]
             unread == \/ inflight' = inflight
                       \/ Count(inflight'[Len(inflight')].files, f) = 0
         IN  isFileSupported(f) =>
               (unread <=> MatchesByVariantRule(f, contentBlocks))]_vars

\* ------------------------------------------ claims on the duplicate rules

\* the ingestion call recorded in ev did not hand the file to Promise.all
Unread(f) == Count(ev.read, f) = 0

\* a Text block of the collection was made from a file of exactly this name
TextBlockNamed(name) ==
  \E i \in 1..Len(contentBlocks) :
    /\ contentBlocks[i].type = "text"
    /\ textPrefix(contentBlocks[i].text) =
         <<"F","i","l","e",":"," ">> \o name \o <<"\n","\n">>

\* C11: a file caught by the text rule is flagged duplicate (named in the
\* duplicate toast and not read) exactly when a Text block of the snapshot
\* carries exactly its name, letter case included; a name that differs in
\* case only is not flagged.
C11_TextRuleIsCaseSensitive ==
  ev.op \in IngestOps =>
    \A k \in 1..Len(ev.files) :
      LET f == ev.files[k]
      IN  HasTextExtension(f.name) =>
            /\ Unread(f) <=> TextBlockNamed(f.name)
            /\ Unread(f) <=> f.name \in DuplicateNames(ev.toasts)

\* C11 witness: with the Text block of a.txt in the collection, A.txt was
\* read and appended as a second Text block
C11_Witness ==
  /\ ev.op = "appended"
  /\ ev.files = <<upperATxt>>
  /\ contentBlocks = <<fileToContentBlock(aTxt), fileToContentBlock(upperATxt)>>

\* an Image block of the collection carries this name and this media type
ImageBlockOf(name, type) ==
  \E i \in 1..Len(contentBlocks) :
    /\ contentBlocks[i].type = "image"
    /\ contentBlocks[i].metadata.name = name
    /\ contentBlocks[i].mime_type = type

\* a Document block of the collection carries this filename
DocumentBlockNamed(name) ==
  \E i \in 1..Len(contentBlocks) :
    /\ contentBlocks[i].type = "file"
    /\ contentBlocks[i].mime_type = T_pdf
    /\ contentBlocks[i].metadata.filename = name

\* C12: an image file the text rule does not catch is flagged duplicate
\* (named in the duplicate toast and not read) exactly when an Image block of
\* the snapshot has both its name and its media type; the same name with
\* another image type, or the same type with another name, is not flagged.
C12_ImageRuleNameAndType ==
  ev.op \in IngestOps =>
    \A k \in 1..Len(ev.files) :
      LET f == ev.files[k]
      IN  (f.type \in ImageTypes /\ ~HasTextExtension(f.name)) =>
            /\ Unread(f) <=> ImageBlockOf(f.name, f.type)
            /\ Unread(f) <=> f.name \in DuplicateNames(ev.toasts)

\* C12 witness: with the Image block of a.png (image/png) in the collection,
\* a.png of type image/jpeg was read and appended as a second Image block
C12_Witness ==
  /\ ev.op = "appended"
  /\ ev.files = <<aPngJpeg>>
  /\ contentBlocks = <<fileToContentBlock(aPng), fileToContentBlock(aPngJpeg)>>

\* C13: a PDF file the text rule does not catch is flagged duplicate (named
\* in the duplicate toast and not read) exactly when a Document block of the
\* snapshot has its filename; Image and Text blocks of the same name never
\* make it a duplicate.
C13_PdfRuleByFilename ==
  ev.op \in IngestOps =>
    \A k \in 1..Len(ev.files) :
      LET f == ev.files[k]
      IN  (f.type = T_pdf /\ ~HasTextExtension(f.name)) =>
            /\ Unread(f) <=> DocumentBlockNamed(f.name)
            /\ Unread(f) <=> f.name \in DuplicateNames(ev.toasts)

\* C13 witness: with the Image block of a.png in the collection, the PDF
\* named a.png was read and appended as a Document block
C13_Witness ==
  /\ ev.op = "appended"
  /\ ev.files = <<aPngPdf>>
  /\ contentBlocks = <<fileToContentBlock(aPng), fileToContentBlock(aPngPdf)>>

\* ------------------------------------------------ claims on the toasts

\* the toasts of a call that carry one of these messages, in order
ToastsWith(toasts, msgs) ==
  LET has(t) == t.msg \in msgs
  IN  SelectSeq(toasts, has)

\* the files of the call recorded in ev that passed the gate and were not
\* handed to Promise.all, in input order
FlaggedFiles ==
  LET flagged(f) == isFileSupported(f) /\ Unread(f)
  IN  SelectSeq(ev.files, flagged)

\* C14: an ingestion call emits the unsupported toast once when at least one
\* of its files fails the gate and never otherwise, and the duplicate toast
\* once when at least one supported file is flagged duplicate and never
\* otherwise, naming the flagged files in input order; when the toasts are
\* out, the reads of the call are all pending and none of its blocks is
\* appended.
C14_OneToastOfEachKind ==
  ev.op \in IngestOps =>
    LET invalid   == ToastsWith(ev.toasts, {"invalid-upload", "invalid-paste"})
        duplicate == ToastsWith(ev.toasts, {"duplicate"})
    IN  /\ Len(invalid) =
             (IF \E k \in 1..Len(ev.files) : ~isFileSupported(ev.files[k])
              THEN 1 ELSE 0)
        /\ Len(duplicate) = (IF Len(FlaggedFiles) > 0 THEN 1 ELSE 0)
        /\ Len(duplicate) = 1 =>
             duplicate[1].names =
               [k \in 1..Len(FlaggedFiles) |-> FlaggedFiles[k].name]
        /\ Len(ev.toasts) = Len(invalid) + Len(duplicate)
        /\ ev.read # <<>> =>
             /\ inflight # <<>>
             /\ Launched(inflight[Len(inflight)], ev.read)

\* C14 witness: a drop of A.txt and a.txt, both flagged, emitted one
\* duplicate toast naming them in that order
C14_Witness ==
  /\ ev.op = "drop"
  /\ ev.files = <<upperATxt, aTxt>>
  /\ ev.toasts = <<[msg |-> "duplicate",
                    names |-> << <<"A",".","t","x","t">>, <<"a",".","t","x","t">> >>]>>

\* C15: a paste whose clipboard holds no file item changes nothing, emits
\* no toast and does not call preventDefault; a paste with at least one file
\* item calls preventDefault, also when every file is unsupported or flagged
\* duplicate.
C15_PasteWithoutFilesIsInert ==
  [][ev'.op = "paste" =>
       IF ev'.files = <<>>
       THEN /\ contentBlocks' = contentBlocks
            /\ inflight' = inflight
            /\ dragOver' = dragOver
            /\ dragCounter' = dragCounter
            /\ dragLog' = dragLog
            /\ pickerValue' = pickerValue
            /\ ev'.toasts = <<>>
            /\ ~ev'.defaultPrevented
       ELSE ev'.defaultPrevented]_vars

\* C15 witness: a paste of text alone on a non-empty collection, recorded
\* without preventDefault
C15_Witness ==
  /\ ev.op = "paste"
  /\ ev.files = <<>>
  /\ ~ev.defaultPrevented
  /\ ev.toasts = <<>>
  /\ Len(contentBlocks) > 0

\* ------------------------------------------- claims on removal and reset

\* C16: removeBlock(idx) with 0 <= idx < length drops the element at position
\* idx and keeps the others in their order; with idx out of range the
\* collection holds the same elements as before.
C16_RemoveAtDropsOneElement ==
  [][\A idx \in 0..MaxBlocks :
       removeBlock(idx) =>
         IF idx < Len(contentBlocks)
         THEN /\ Len(contentBlocks') = Len(contentBlocks) - 1
              /\ \A i \in 1..Len(contentBlocks') :
                   contentBlocks'[i] =
                     contentBlocks[IF i <= idx THEN i ELSE i + 1]
         ELSE contentBlocks' = contentBlocks]_vars

\* C16 witness: a removal left the block of A.txt alone in the collection
C16_Witness ==
  /\ ev.op = "remove"
  /\ contentBlocks = <<fileToContentBlock(upperATxt)>>

\* C17: reset() empties the collection from any state and changes neither
\* the drag counter nor the hover boolean.
C17_ResetKeepsDragState ==
  [][ev'.op = "reset" =>
       /\ contentBlocks' = <<>>
       /\ dragCounter' = dragCounter
       /\ dragOver' = dragOver]_vars

\* --------------------------------------------- claims on the drag state

\* the counter after a run of window events that carry files, starting at 0:
\* an enter adds one, a leave takes one away and stops at 0
CounterAfter(log) ==
  LET C[n \in 0..Len(log)] ==
        IF n = 0 THEN 0
        ELSE IF log[n] = "enter" THEN C[n - 1] + 1
        ELSE IF C[n - 1] > 0 THEN C[n - 1] - 1 ELSE 0
  IN  C[Len(log)]

\* C18: the drag counter is never negative, whatever the order of window
\* dragenter, dragleave, drop and dragend events, more leaves than enters
\* included; after two enters and three leaves that carry files the counter
\* is 0 and the hover boolean is false.
C18_DragCounterNeverNegative ==
  /\ [](dragCounter >= 0 /\ dragCounter = CounterAfter(dragLog))
  /\ [](dragLog = <<"enter", "enter", "leave", "leave", "leave">> =>
          dragCounter = 0)
  /\ [][(dragLog' # dragLog /\
         dragLog' = <<"enter", "enter", "leave", "leave", "leave">>) =>
          ~dragOver']_vars

\* C18 witness: two enters and three leaves that carry files have just run
C18_Witness ==
  /\ ev.op = "dragleave"
  /\ dragLog = <<"enter", "enter", "leave", "leave", "leave">>
  /\ dragCounter = 0
  /\ ~dragOver

\* C19: in every reachable state the hover boolean is true exactly when the
\* drag counter is positive.
C19_HoverIffCounterPositive ==
  dragOver <=> dragCounter > 0

\* C20: a window drop or dragend sets the drag counter to 0 and the hover
\* boolean to false in every drag state and for every payload; after a drop
\* they are cleared while the reads of the call are still pending, and a
\* read that fails later changes neither.
C20_DropAndDragEndClearDragState ==
  /\ [][ev'.op \in {"drop", "dragend"} =>
          dragCounter' = 0 /\ ~dragOver']_vars
  /\ []((ev.op = "drop" /\ ev.read # <<>>) =>
          /\ inflight # <<>>
          /\ Launched(inflight[Len(inflight)], ev.read)
          /\ dragCounter = 0
          /\ ~dragOver)
  /\ [][ev'.op = "failed" =>
          dragCounter' = dragCounter /\ dragOver' = dragOver]_vars

\* C20 witness: the read of a dropped file failed and the hover boolean,
\* cleared by the drop, is false
C20_Witness ==
  /\ ev.op = "failed"
  /\ ev.files = <<aPng>>
  /\ dragCounter = 0
  /\ ~dragOver

\* ------------------------------------------ claims on the entry points

\* C21: selection, drop and paste run the same pipeline: on every snapshot
\* and for every file list the paste handler computes the duplicate and the
\* unique files the selection and drop handlers compute, and every call
\* hands the same unique files to Promise.all and names the same duplicates;
\* the calls differ in the wording of the unsupported toast (paste) and in
\* preventDefault (drop and paste).
C21_EntryPointsRunSamePipeline ==
  /\ \A files \in Batches :
       LET validFiles == validFilesOf(files)
       IN  /\ pasteUniqueFilesOf(validFiles, contentBlocks) =
                uniqueFilesOf(validFiles, contentBlocks)
           /\ pasteDuplicateFilesOf(validFiles, contentBlocks) =
                duplicateFilesOf(validFiles, contentBlocks)
  /\ (ev.op \in IngestOps /\ ev.files # <<>>) =>
       LET validFiles     == validFilesOf(ev.files)
           invalidFiles   == invalidFilesOf(ev.files)
           duplicateFiles == duplicateFilesOf(validFiles, contentBlocks)
           wording        == IF ev.op = "paste" THEN "invalid-paste"
                             ELSE "invalid-upload"
       IN  /\ ev.read = uniqueFilesOf(validFiles, contentBlocks)
           /\ ev.toasts =
                (IF invalidFiles # <<>>
                 THEN <<[msg |-> wording, names |-> <<>>]>> ELSE <<>>)
                \o (IF duplicateFiles # <<>>
                    THEN <<[msg |-> "duplicate",
                            names |-> [k \in 1..Len(duplicateFiles) |->
                                         duplicateFiles[k].name]]>>
                    ELSE <<>>)
           /\ ev.defaultPrevented = (ev.op \in {"drop", "paste"})

\* C21 witness: a paste of the PDF named a.png and of a.png, with the
\* Document block of the PDF in the collection, flagged the PDF and handed
\* a.png to Promise.all
C21_Witness ==
  /\ ev.op = "paste"
  /\ ev.files = <<aPngPdf, aPng>>
  /\ ev.read = <<aPng>>
  /\ ev.toasts = <<[msg |-> "duplicate", names |-> << <<"a",".","p","n","g">> >>]>>

\* C22: a launched call has no cancel path: only its own reads take it out
\* of flight, no block of it is appended while a read is pending, it ends
\* either with all its blocks appended or in failure with none, and when
\* every launched read settles a call in flight does end.
C22_LaunchedCallEnds ==
  /\ [][/\ ev'.op \notin {"appended", "failed"} =>
             /\ Len(inflight') >= Len(inflight)
             /\ \A t \in 1..Len(inflight) :
                  inflight'[t].files = inflight[t].files
        /\ ev'.op = "read" => contentBlocks' = contentBlocks
        /\ ev'.op = "appended" =>
             /\ Len(contentBlocks') = Len(contentBlocks) + Len(ev'.files)
             /\ Len(ev'.order) = Len(ev'.files)
             /\ Len(inflight') = Len(inflight) - 1
        /\ ev'.op = "failed" =>
             /\ contentBlocks' = contentBlocks
             /\ Len(inflight') = Len(inflight) - 1]_vars
  /\ (inflight # <<>>) ~> (ev.op \in {"appended", "failed"})

\* C22 witness: a call of two files ended with both blocks appended
C22_Witness ==
  /\ ev.op = "appended"
  /\ ev.files = <<aTxt, aTxtYo>>
  /\ inflight = <<>>
  /\ contentBlocks = <<fileToContentBlock(aTxt), fileToContentBlock(aTxtYo)>>

\* C23: the content of a file is read only when the file passed the gate
\* and was not flagged in its call: the files handed to Promise.all are the
\* supported files of the call that isDuplicate does not flag, every file in
\* flight is supported, and the gate, the duplicate check and the choice of
\* the variant give the same answer for two files of the same name and
\* declared media type, whatever their content.
C23_ReadOnlyAcceptedFiles ==
  /\ ev.op \in IngestOps =>
       \A k \in 1..Len(ev.files) :
         LET f == ev.files[k]
         IN  ~Unread(f) <=>
               (isFileSupported(f) /\ ~isDuplicate(f, contentBlocks))
  /\ \A t \in 1..Len(inflight) : \A k \in 1..Len(inflight[t].files) :
       isFileSupported(inflight[t].files[k])
  /\ \A f \in universe : \A g \in universe :
       (f.name = g.name /\ f.type = g.type) =>
         /\ isFileSupported(f) = isFileSupported(g)
         /\ isDuplicate(f, contentBlocks) = isDuplicate(g, contentBlocks)
         /\ pasteIsDuplicate(f, contentBlocks) = pasteIsDuplicate(g, contentBlocks)
         /\ materializerBranch(f) = materializerBranch(g)

\* C23 witness: with the Text block of a.txt (content hi) in the collection,
\* a call given a.txt with another content flagged it and read nothing
C23_Witness ==
  /\ ev.op \in IngestOps
  /\ ev.files = <<aTxtYo>>
  /\ ev.read = <<>>
  /\ contentBlocks = <<fileToContentBlock(aTxt)>>
  /\ inflight = <<>>

\* C24: every call of the selection entry point that is given a file list
\* ends with the value of the file picker cleared, whether the call appended
\* its blocks, found no unique file (all unsupported, all duplicate) or
\* failed in a read; the calls of the drop and paste entry points never
\* change the picker.
C24_SelectionEndsWithPickerCleared ==
  [][/\ (ev'.op = "select" /\ inflight' = inflight) => pickerValue' = ""
     /\ \A t \in 1..Len(inflight) :
          (ev'.op \in {"appended", "failed"} /\ inflight' = without(inflight, t)) =>
            pickerValue' = (IF inflight[t].target = "picker" THEN ""
                            ELSE pickerValue)
     /\ ev'.op \in {"drop", "paste"} => pickerValue' = pickerValue]_vars

\* C25: no update is lost when calls overlap or a block is removed while a
\* call is suspended: a call that succeeds appends its blocks, contiguous
\* and in input order, at the end of the collection as it is when the call
\* resumes (with the blocks another call appended meanwhile, without the
\* blocks removed meanwhile); starting a call, a read settling and a call
\* failing leave the collection alone, and a removal leaves the suspended
\* calls alone.
C25_NoLostUpdate ==
  [][/\ ev'.op = "appended" =>
          \E t \in 1..Len(inflight) :
            /\ inflight' = without(inflight, t)
            /\ ev'.files = inflight[t].files
            /\ contentBlocks' = contentBlocks \o BlocksOf(inflight[t].files)
     /\ ev'.op \in IngestOps \cup {"read", "failed"} =>
          contentBlocks' = contentBlocks
     /\ ev'.op = "remove" =>
          /\ inflight' = inflight
          /\ Len(contentBlocks') >= Len(contentBlocks) - 1
          /\ \A k \in 1..Len(contentBlocks') :
                Count(contentBlocks', contentBlocks'[k])
                  <= Count(contentBlocks, contentBlocks'[k])]_vars

\* C25 witness: a call of one file has just appended its block behind an
\* equal block, which a call that overlapped it appended while it was
\* suspended (a.txt and A.txt are flagged when a block of theirs is in the
\* collection at the start of a call)
C25_Witness ==
  /\ ev.op = "appended"
  /\ Len(ev.files) = 1
  /\ inflight = <<>>
  /\ contentBlocks = <<fileToContentBlock(ev.files[1]),
                       fileToContentBlock(ev.files[1])>>

\* C26: a call that was suspended when reset() ran does not add its blocks
\* to the cleared collection: when the step that follows reset() is the
\* resumption of a call (which therefore started before the reset), the
\* collection is still empty after it.
C26_ResetDiscardsCallsInFlight ==
  [][(ev.op = "reset" /\ ev'.op = "appended") => contentBlocks' = <<>>]_vars

\* C27: the support gate of the session and the support check of the
\* materializer agree on every file (equal MIME allow-lists, equal extension
\* allow-lists, the same case-insensitive suffix test), so a file the gate
\* accepts takes the image, the PDF or the text branch of the materializer,
\* never its "unsupported file type" rejection or its final rejection; the
\* files handed to the reads and the blocks appended show the same.
C27_GateAndMaterializerAgree ==
  /\ SUPPORTED_FILE_TYPES = supportedFileTypes
  /\ SUPPORTED_TEXT_EXTENSIONS = supportedTextExtensions
  /\ \A f \in universe :
       /\ isFileSupported(f) = materializerSupports(f)
       /\ isFileSupported(f) =>
            materializerBranch(f) \in {"image", "file", "text"}
  /\ \A t \in 1..Len(inflight) : \A i \in 1..Len(inflight[t].files) :
       materializerBranch(inflight[t].files[i]) \in {"image", "file", "text"}
  /\ \A k \in 1..Len(contentBlocks) :
       \E f \in universe :
         /\ isFileSupported(f)
         /\ contentBlocks[k] = fileToContentBlock(f)
         /\ contentBlocks[k].type = materializerBranch(f)

\* C27 witness: a file the gate accepts only through the suffix test on the
\* lower-cased name (upper-case extension, a type outside the allow-list)
\* was read and appended as a Text block
C27_Witness ==
  /\ ev.op = "appended"
  /\ \E f \in universe :
       /\ f.type \notin SUPPORTED_FILE_TYPES
       /\ ~someEndsWith(f.name, SUPPORTED_TEXT_EXTENSIONS)
       /\ ev.files = <<f>>
       /\ contentBlocks[Len(contentBlocks)].type = "text"

\* ------------------------------------- claims on the configuration panel

\* the members of an object other than those of the given keys, in order
Without(m, keys) ==
  SelectSeq(m, LAMBDA pair : pair[1] \notin keys)

\* the members of configurable (none when the config has no such key)
ConfigurableOf(cfg) ==
  IF HasMember(cfg.m, Key.configurable) THEN member(cfg.m, Key.configurable).m
  ELSE <<>>

\* configurable[key] is the given value
ConfigurableHas(cfg, key, value) ==
  /\ HasMember(ConfigurableOf(cfg), key)
  /\ member(ConfigurableOf(cfg), key) = value

\* the two configs differ at most in the given keys of configurable
SameExcept(old, new, keys) ==
  /\ Without(new.m, {Key.configurable}) = Without(old.m, {Key.configurable})
  /\ Without(ConfigurableOf(new), keys) = Without(ConfigurableOf(old), keys)

\* the texts of the JSON fields that JSON accepts
ValidJsonTexts ==
  {JsonText.k4, JsonText.fetch, JsonText.empty, JsonText.flash, JsonText.nested, JsonText.number,
   JsonText.null}

\* the handler of the event has run and no effect has run since
JustHandled ==
  panelEv.rounds = 0

\* the key a JSON field writes
KwargsKey(op) ==
  IF op = "searchKwargs" THEN Key.search_kwargs ELSE Key.rerank_kwargs

C29_InvalidJsonChangesNothing ==
  [][(panelEv'.op \in {"searchKwargs", "rerankKwargs"} /\ JustHandled') =>
       IF panelEv'.arg \in ValidJsonTexts
       THEN /\ ConfigurableHas(localConfig'.val, KwargsKey(panelEv'.op),
                               JSONparse(panelEv'.arg).val)
            /\ SameExcept(localConfig.val, localConfig'.val,
                          {KwargsKey(panelEv'.op)})
       ELSE /\ localConfig' = localConfig
            /\ config' = config
            /\ ~EffectsPending']_vars

\* C29 witness: invalid text was entered in the search-parameters field
\* after a valid one: the field still holds the value parsed before
C29_Witness ==
  /\ panelEv.op = "searchKwargs"
  /\ panelEv.arg = JsonText.trailingComma
  /\ ConfigurableHas(localConfig.val, Key.search_kwargs, JSONparse(JsonText.fetch).val)
  /\ HasMember(localConfig.val.m, Key.tags)

\* C30: setting the Use Local Model switch to v stores, in one update of the
\* local copy, use_local_model = v together with the response and embedding
\* models of that provider (ollama/qwen3:14b and ollama/nomic-embed-text for
\* true, openai/gpt-4.1-mini and openai/text-embedding-3-small for false),
\* whatever models were selected before, and leaves every other key as it
\* was.
C30_SwitchSetsProviderDefaults ==
  [][(panelEv'.op = "useLocalModel" /\ JustHandled') =>
       LET v   == panelEv'.arg = BoolText(TRUE)
           new == localConfig'.val
       IN  /\ localConfig'.ref # localConfig.ref
           /\ ConfigurableHas(new, Key.use_local_model, JBool(v))
           /\ ConfigurableHas(new, Key.response_model,
                              JStr(IF v THEN Model.ollamaQwen ELSE Model.openaiMini))
           /\ ConfigurableHas(new, Key.embedding_model,
                              JStr(IF v THEN Model.ollamaNomic ELSE Model.openaiSmall))
           /\ SameExcept(localConfig.val, new,
                         {Key.use_local_model, Key.response_model,
                          Key.embedding_model})]_vars

\* C30 witness: the switch was set to true on the cloud configuration (the
\* one with tags and max_iterations), whose response model was another one
C30_Witness ==
  /\ panelEv.op = "useLocalModel"
  /\ panelEv.arg = BoolText(TRUE)
  /\ HasMember(localConfig.val.m, Key.tags)
  /\ HasMember(ConfigurableOf(localConfig.val), Key.max_iterations)
  /\ ConfigurableHas(localConfig.val, Key.response_model, JStr(Model.ollamaQwen))
  /\ ConfigurableHas(localConfig.val, Key.embedding_model, JStr(Model.ollamaNomic))

====
